---- MODULE Spec2Model ----
(***************************************************************************)
(* Model of the goredis storage engine (storage.go), of the commands       *)
(* executed against it (commands.go), of the request parser (peer.go) and  *)
(* of the server loop with its connection workers (main.go, handlers.go).  *)
(*                                                                         *)
(* Byte sequences ([]byte and string) are sequences of byte codes, so      *)
(* "1" is <<49>>, "-" is <<45>>, "*" is <<42>> and the zero byte is 0.      *)
(* A Go map is a function whose DOMAIN is the set of keys it holds.        *)
(* A possibly-nil []byte is a sequence of length 0 (nil) or 1 (the slice). *)
(***************************************************************************)
EXTENDS Integers, Sequences, FiniteSets, TLC

\* ---- bounds of the model -------------------------------------------------
\* last instant the clock reaches
MaxTime == 2
\* longest TTL a SET ... EX carries
MaxDur == 1
\* longest value APPEND / SETRANGE may build
MaxLen == 2
\* largest SETRANGE offset
MaxOff == 1
\* width of the integer type that stands for int64
IntBits == 4
\* number of goroutines that call the storage engine concurrently
NumProcs == 2
\* number of calls each of them makes
MaxCalls == 2
\* number of client connections
NumPeers == 2
\* number of requests a connection's worker reads
MaxReqs == 2

\* ---- inputs --------------------------------------------------------------
\* keys "a" and "b"
KeySet == {<<97>>, <<98>>}
\* the one key of the specification that edits values and counts: "a"
EditKeys == {<<97>>}
\* values "1" (an integer) and "x" (not an integer)
ValSet == {<<49>>, <<120>>}
\* INCRBY / DECRBY amounts
DeltaSet == {1, 2}
\* KEYS patterns "*", "a", "a*", "*b"
PatternSet == {<<42>>, <<97>>, <<97, 42>>, <<42, 98>>}
\* GETRANGE indices
IndexSet == {-1, 0, 1}
\* key lists of DEL / EXISTS / MGET over the keys K: one or two keys
KeyLists(K) == {<<k>> : k \in K} \cup {<<k1, k2>> : k1 \in K, k2 \in K}

Procs == 1..NumProcs

Peers == 1..NumPeers

VARIABLES
    data,       \* Storage.data     map[string][]byte
    expiry,     \* Storage.expiry   map[string]time.Time
    counters,   \* Storage.counters map[string]int64
    now,        \* the instant time.Now() returns
    last,       \* the command executed by the last step, with what it returned
    pc,         \* per goroutine: the statement of the storage method it is at
    call,       \* per goroutine: the method it is in and its arguments
    loc,        \* per goroutine: the local variables of that method
    readers,    \* Storage.mu: the goroutines that hold it in shared mode
    writer,     \* Storage.mu: the goroutine that holds it exclusively, or 0
    returned,   \* per goroutine: what its calls have returned, in order
    fatal,      \* the Go runtime has aborted the process
    peerPc,     \* per connection: the statement its worker goroutine is at
    cur,        \* per connection: the request its worker read last, parsed,
                \* with the count of requests read and of commands sent on
    outbox,     \* per connection: the frames written to it, in order
    stalled,    \* the connections whose socket accepts no write at present
    loopPc,     \* the statement the server loop is at
    loopMsg,    \* the message the server loop is handling and its reply
    peers,      \* Server.peers
    exited      \* the process has exited

cvars == <<pc, call, loc, readers, writer, returned, fatal>>
svars == <<peerPc, cur, outbox, stalled, loopPc, loopMsg, peers, exited>>
vars == <<data, expiry, counters, now, last, pc, call, loc, readers, writer,
          returned, fatal, peerPc, cur, outbox, stalled, loopPc, loopMsg,
          peers, exited>>

\* ---- Go maps ---------------------------------------------------------------
EmptyMap == [x \in {} |-> 0]
Has(m, k) == k \in DOMAIN m
Put(m, k, v) == [x \in (DOMAIN m) \cup {k} |-> IF x = k THEN v ELSE m[x]]
Remove(m, k) == [x \in (DOMAIN m) \ {k} |-> m[x]]

\* ---- possibly-nil values ---------------------------------------------------
Nil == <<>>
Some(v) == <<v>>

\* ---- int64, scaled to IntBits bits -----------------------------------------
\* int64 is modelled with IntBits bits: IntMin..IntMax, arithmetic wraps
IntMod == 2 ^ IntBits
IntMin == -(2 ^ (IntBits - 1))
IntMax == (2 ^ (IntBits - 1)) - 1
\* the value an int64 addition leaves (two's complement wrap-around)
Wrap(n) == ((n - IntMin + IntMod) % IntMod) + IntMin

IsDigit(b) == b \in 48..57

RECURSIVE DigitsVal(_)
DigitsVal(ds) ==
    IF ds = <<>> THEN 0
    ELSE 10 * DigitsVal(SubSeq(ds, 1, Len(ds) - 1)) + (ds[Len(ds)] - 48)

\* strconv.ParseInt(s, 10, 64): optional sign, at least one digit, digits
\* only, value within the integer range
ParseInt(s) ==
    LET signed == Len(s) > 0 /\ s[1] \in {43, 45}
        ds     == IF signed THEN Tail(s) ELSE s
        mag    == DigitsVal(ds)
        n      == IF signed /\ s[1] = 45 THEN -mag ELSE mag
    IN  IF ds = <<>> \/ \E i \in 1..Len(ds) : ~IsDigit(ds[i])
        THEN [ok |-> FALSE, n |-> 0]
        ELSE IF n < IntMin \/ n > IntMax
             THEN [ok |-> FALSE, n |-> 0]
             ELSE [ok |-> TRUE, n |-> n]

RECURSIVE NatDigits(_)
NatDigits(n) ==
    IF n < 10 THEN <<48 + n>> ELSE NatDigits(n \div 10) \o <<48 + (n % 10)>>

\* strconv.FormatInt(n, 10) and strconv.Itoa(n)
FormatInt(n) == IF n < 0 THEN <<45>> \o NatDigits(-n) ELSE NatDigits(n)

\* ---- matchPattern ----------------------------------------------------------
\* strings.Contains(s, "*") for b = 42
Contains(s, b) == \E i \in 1..Len(s) : s[i] = b

\* strings.Split(pattern, "*")
RECURSIVE SplitStar(_)
SplitStar(p) ==
    IF ~Contains(p, 42) THEN <<p>>
    ELSE LET i == CHOOSE i \in 1..Len(p) :
                      p[i] = 42 /\ \A j \in 1..(i - 1) : p[j] # 42
         IN  <<SubSeq(p, 1, i - 1)>> \o SplitStar(SubSeq(p, i + 1, Len(p)))

\* strings.LastIndex in the place of strings.Index: the last occurrence
Index_Last(s, part) ==
    LET hits == {i \in 0..(Len(s) - Len(part)) :
                    SubSeq(s, i + 1, i + Len(part)) = part}
    IN  IF hits = {} THEN -1
        ELSE CHOOSE i \in hits : \A j \in hits : i >= j

\* strings.Index(s, part): 0-based position of the first occurrence, or -1
Index(s, part) ==
    LET hits == {i \in 0..(Len(s) - Len(part)) :
                    SubSeq(s, i + 1, i + Len(part)) = part}
    IN  IF hits = {} THEN -1
        ELSE CHOOSE i \in hits : \A j \in hits : i <= j

\* the loop `for i, part := range parts` of matchPattern, from iteration i
RECURSIVE MatchParts(_, _, _, _)
MatchParts(key, parts, i, keyIndex) ==
    IF i >= Len(parts) THEN [ok |-> TRUE, keyIndex |-> keyIndex]
    ELSE LET part == parts[i + 1] IN
         IF part = <<>> THEN MatchParts(key, parts, i + 1, keyIndex)
         ELSE LET index == Index(SubSeq(key, keyIndex + 1, Len(key)), part) IN
              IF index = -1 THEN [ok |-> FALSE, keyIndex |-> keyIndex]
              ELSE IF i = 0 /\ index # 0 THEN [ok |-> FALSE, keyIndex |-> keyIndex]
              ELSE MatchParts(key, parts, i + 1, keyIndex + index + Len(part))

matchPattern(key, pattern) ==
    IF pattern = <<42>> THEN TRUE
    ELSE IF ~Contains(pattern, 42) THEN key = pattern
    ELSE LET r == MatchParts(key, SplitStar(pattern), 0, 0) IN
         IF ~r.ok THEN FALSE
         ELSE IF pattern[Len(pattern)] = 42 THEN TRUE
         ELSE r.keyIndex = Len(key)

\* ---- Storage ---------------------------------------------------------------
\* A store S is the record of the three maps; t is what time.Now() returns.
St == [data |-> data, expiry |-> expiry, counters |-> counters]

NewStorage == [data |-> EmptyMap, expiry |-> EmptyMap, counters |-> EmptyMap]

\* `if expTime, exists := s.expiry[keyStr]; exists { if time.Now().After(expTime)`
Expired(S, t, key) == Has(S.expiry, key) /\ t > S.expiry[key]

Set(S, key, val) ==
    [S EXCEPT !.data = Put(@, key, val), !.expiry = Remove(@, key)]

SetWithExpiry(S, t, key, val, d) ==
    [S EXCEPT !.data = Put(@, key, val), !.expiry = Put(@, key, t + d)]

\* Get without delete(s.expiry, keyStr) in its purge
Get_PurgeDataOnly(S, t, key) ==
    IF Expired(S, t, key)
    THEN [st  |-> [S EXCEPT !.data = Remove(@, key)],
          val |-> Nil, ok |-> FALSE]
    ELSE [st  |-> S,
          val |-> IF Has(S.data, key) THEN Some(S.data[key]) ELSE Nil,
          ok  |-> Has(S.data, key)]

Get(S, t, key) ==
    IF Expired(S, t, key)
    THEN [st  |-> [S EXCEPT !.data = Remove(@, key), !.expiry = Remove(@, key)],
          val |-> Nil, ok |-> FALSE]
    ELSE [st  |-> S,
          val |-> IF Has(S.data, key) THEN Some(S.data[key]) ELSE Nil,
          ok  |-> Has(S.data, key)]

\* Delete without delete(s.data, keyStr)
Delete_ValueKept(S, key) ==
    IF Has(S.data, key)
    THEN [st |-> [S EXCEPT !.expiry = Remove(@, key), !.counters = Remove(@, key)],
          existed |-> TRUE]
    ELSE [st |-> S, existed |-> FALSE]

\* Delete that reports a key carrying an expiry entry as not having existed
Delete_ExpiryConsulted(S, key) ==
    IF Has(S.data, key)
    THEN [st |-> [S EXCEPT !.data = Remove(@, key), !.expiry = Remove(@, key),
                           !.counters = Remove(@, key)],
          existed |-> ~Has(S.expiry, key)]
    ELSE [st |-> S, existed |-> FALSE]

Delete(S, key) ==
    IF Has(S.data, key)
    THEN [st |-> [S EXCEPT !.data = Remove(@, key), !.expiry = Remove(@, key),
                           !.counters = Remove(@, key)],
          existed |-> TRUE]
    ELSE [st |-> S, existed |-> FALSE]

\* Exists with `>=` for After: the key is hidden from its expiration instant on
Exists_AtInstant(S, t, key) ==
    IF Has(S.expiry, key) /\ t >= S.expiry[key] THEN FALSE ELSE Has(S.data, key)

Exists(S, t, key) ==
    IF Expired(S, t, key) THEN FALSE ELSE Has(S.data, key)

\* Append that clears the TTL of the key, as Set does
StorageAppend_ClearTTL(S, key, val) ==
    IF ~Has(S.data, key)
    THEN [st |-> [S EXCEPT !.data = Put(@, key, val), !.expiry = Remove(@, key)],
          n  |-> Len(val)]
    ELSE [st |-> [S EXCEPT !.data = Put(@, key, S.data[key] \o val),
                           !.expiry = Remove(@, key)],
          n  |-> Len(S.data[key] \o val)]

StorageAppend(S, key, val) ==
    IF ~Has(S.data, key)
    THEN [st |-> [S EXCEPT !.data = Put(@, key, val)], n |-> Len(val)]
    ELSE [st |-> [S EXCEPT !.data = Put(@, key, S.data[key] \o val)],
          n  |-> Len(S.data[key] \o val)]

Strlen(S, t, key) ==
    IF Expired(S, t, key) THEN 0
    ELSE IF Has(S.data, key) THEN Len(S.data[key]) ELSE 0

GetRange(S, t, key, start, end) ==
    IF Expired(S, t, key) THEN <<>>
    ELSE IF ~Has(S.data, key) THEN <<>>
    ELSE LET val    == S.data[key]
             length == Len(val)
             start1 == IF start < 0 THEN length + start ELSE start
             end1   == IF end < 0 THEN length + end ELSE end
             start2 == IF start1 < 0 THEN 0 ELSE start1
             end2   == IF end1 >= length THEN length - 1 ELSE end1
         IN  IF start2 > end2 THEN <<>> ELSE SubSeq(val, start2 + 1, end2 + 1)

\* make([]byte, n)
Zeros(n) == [i \in 1..n |-> 0]

\* SetRange without the padding of an absent key up to the offset
SetRange_NoPadding(S, key, offset, value) ==
    LET existing0 == IF Has(S.data, key) THEN S.data[key] ELSE <<>>
        existing1 == IF Len(existing0) < offset THEN existing0 ELSE
                         SubSeq(existing0, 1, offset)
        existing2 == existing1 \o value \o
                         SubSeq(existing0, offset + Len(value) + 1, Len(existing0))
    IN  [st |-> [S EXCEPT !.data = Put(@, key, existing2)], n |-> Len(existing2)]

SetRange(S, key, offset, value) ==
    LET existing0 == IF Has(S.data, key) THEN S.data[key]
                     ELSE IF offset > 0 THEN Zeros(offset) ELSE <<>>
        requiredLength == offset + Len(value)
        existing1 == IF Len(existing0) < requiredLength
                     THEN existing0 \o Zeros(requiredLength - Len(existing0))
                     ELSE existing0
        existing2 == [i \in 1..Len(existing1) |->
                        IF i > offset /\ i <= offset + Len(value)
                        THEN value[i - offset] ELSE existing1[i]]
    IN  [st |-> [S EXCEPT !.data = Put(@, key, existing2)], n |-> Len(existing2)]

\* IncrBy that takes a value that does not parse as 0 instead of failing
IncrBy_ZeroOnError(S, key, increment) ==
    LET p      == IF Has(S.data, key) THEN ParseInt(S.data[key])
                  ELSE [ok |-> TRUE, n |-> 0]
        intVal == Wrap((IF p.ok THEN p.n ELSE 0) + increment)
    IN  [st  |-> [S EXCEPT !.data = Put(@, key, FormatInt(intVal)),
                           !.counters = Put(@, key, intVal)],
         n   |-> intVal, err |-> FALSE]

IncrBy(S, key, increment) ==
    IF Has(S.data, key)
    THEN LET p == ParseInt(S.data[key]) IN
         IF ~p.ok THEN [st |-> S, n |-> 0, err |-> TRUE]
         ELSE LET intVal == Wrap(p.n + increment) IN
              [st  |-> [S EXCEPT !.data = Put(@, key, FormatInt(intVal)),
                                 !.counters = Put(@, key, intVal)],
               n   |-> intVal, err |-> FALSE]
    ELSE [st  |-> [S EXCEPT !.data = Put(@, key, FormatInt(increment)),
                            !.counters = Put(@, key, increment)],
          n   |-> increment, err |-> FALSE]

Incr(S, key) == IncrBy(S, key, 1)

Decr(S, key) == IncrBy(S, key, -1)

DecrBy(S, key, decrement) == IncrBy(S, key, Wrap(-decrement))

\* GetSet without delete(s.expiry, keyStr)
GetSet_KeepTTL(S, key, val) ==
    [st      |-> [S EXCEPT !.data = Put(@, key, val)],
     oldVal  |-> IF Has(S.data, key) THEN Some(S.data[key]) ELSE Nil,
     exists  |-> Has(S.data, key)]

GetSet(S, key, val) ==
    [st      |-> [S EXCEPT !.data = Put(@, key, val), !.expiry = Remove(@, key)],
     oldVal  |-> IF Has(S.data, key) THEN Some(S.data[key]) ELSE Nil,
     exists  |-> Has(S.data, key)]

\* MGet without the test of the expiry map
MGet_NoExpiry(S, t, keys) ==
    [i \in 1..Len(keys) |->
        IF Has(S.data, keys[i]) THEN Some(S.data[keys[i]]) ELSE Nil]

\* MGet that fills the slots from the last key to the first
MGet_Reversed(S, t, keys) ==
    [i \in 1..Len(keys) |->
        LET key == keys[Len(keys) + 1 - i] IN
        IF Expired(S, t, key) THEN Nil
        ELSE IF Has(S.data, key) THEN Some(S.data[key]) ELSE Nil]

MGet(S, t, keys) ==
    [i \in 1..Len(keys) |->
        IF Expired(S, t, keys[i]) THEN Nil
        ELSE IF Has(S.data, keys[i]) THEN Some(S.data[keys[i]]) ELSE Nil]

\* `for key, val := range pairs`: one pair at a time, in some order
RECURSIVE MSet(_, _)
MSet(S, pairs) ==
    IF DOMAIN pairs = {} THEN S
    ELSE LET key == CHOOSE k \in DOMAIN pairs : TRUE IN
         MSet([S EXCEPT !.data = Put(@, key, pairs[key]),
                        !.expiry = Remove(@, key)],
              Remove(pairs, key))

\* the set of keys Keys returns; their order is the map's iteration order
Keys(S, t, pattern) ==
    {key \in DOMAIN S.data : ~Expired(S, t, key) /\ matchPattern(key, pattern)}

\* FlushAll without `s.expiry = make(map[string]time.Time)`
FlushAll_KeepExpiry(S) == [NewStorage EXCEPT !.expiry = S.expiry]

FlushAll(S) == NewStorage

\* ---- Command.Execute, one action per command -------------------------------
\* what the step leaves in the three maps, and the record of the command
Commit(S, l) ==
    /\ data' = S.data
    /\ expiry' = S.expiry
    /\ counters' = S.counters
    /\ now' = now
    /\ last' = l
    /\ UNCHANGED cvars
    /\ UNCHANGED svars

\* the keys among ks whose expiration instant has passed at instant t; every
\* command record carries it for the keys the command names, as of the call
ExpiredAmong(S, t, ks) == {k \in ks : Expired(S, t, k)}
Was(ks) == ExpiredAmong(St, now, ks)

\* the set of keys a key list names
Range(keys) == {keys[i] : i \in 1..Len(keys)}

\* error values of Execute
NoErr == "nil"
ErrKeyNotFound == "key not found"
ErrParseInt == "strconv.ParseInt"

\* SET key val [EX d]; d = 0 stands for a command without expiry
SetCommand(K) ==
    \E key \in K, val \in ValSet, d \in 0..MaxDur :
        Commit(IF d > 0 THEN SetWithExpiry(St, now, key, val, d)
                        ELSE Set(St, key, val),
               [op |-> "SET", key |-> key, expired |-> Was({key}),
                val |-> val, expiry |-> d,
                err |-> NoErr])

GetCommand(K) ==
    \E key \in K :
        LET r == Get(St, now, key) IN
        Commit(r.st, [op |-> "GET", key |-> key, expired |-> Was({key}),
                      val |-> r.val, ok |-> r.ok,
                      err |-> IF r.ok THEN NoErr ELSE ErrKeyNotFound])

\* the loop of DelCommand.Execute from position i (1-based) on
RECURSIVE DelLoop(_, _, _, _)
DelLoop(S, keys, i, count) ==
    IF i > Len(keys) THEN [st |-> S, count |-> count]
    ELSE LET r == Delete(S, keys[i]) IN
         DelLoop(r.st, keys, i + 1, IF r.existed THEN count + 1 ELSE count)

DelCommand(K) ==
    \E keys \in KeyLists(K) :
        LET r == DelLoop(St, keys, 1, 0) IN
        Commit(r.st, [op |-> "DEL", keys |-> keys, expired |-> Was(Range(keys)),
                      count |-> r.count,
                      err |-> NoErr])

ExistsCommand(K) ==
    \E keys \in KeyLists(K) :
        Commit(St, [op |-> "EXISTS", keys |-> keys, expired |-> Was(Range(keys)),
                    count |-> Cardinality({i \in 1..Len(keys) :
                                              Exists(St, now, keys[i])}),
                    err |-> NoErr])

AppendCommand(K) ==
    \E key \in K, val \in ValSet :
        LET r == StorageAppend(St, key, val) IN
        /\ r.n <= MaxLen
        /\ Commit(r.st, [op |-> "APPEND", key |-> key, expired |-> Was({key}),
                         val |-> val,
                         n |-> r.n, err |-> NoErr])

\* STRLEN that purges the key it finds expired, as GET does
StrlenCommand_Purging(K) ==
    \E key \in K :
        Commit(Get(St, now, key).st,
               [op |-> "STRLEN", key |-> key, expired |-> Was({key}),
                n |-> Strlen(St, now, key),
                err |-> NoErr])

StrlenCommand(K) ==
    \E key \in K :
        Commit(St, [op |-> "STRLEN", key |-> key, expired |-> Was({key}),
                    n |-> Strlen(St, now, key),
                    err |-> NoErr])

GetRangeCommand(K) ==
    \E key \in K, start \in IndexSet, end \in IndexSet :
        Commit(St, [op |-> "GETRANGE", key |-> key, expired |-> Was({key}),
                    start |-> start,
                    end |-> end, val |-> GetRange(St, now, key, start, end),
                    err |-> NoErr])

SetRangeCommand(K) ==
    \E key \in K, offset \in 0..MaxOff, value \in ValSet :
        LET r == SetRange(St, key, offset, value) IN
        /\ r.n <= MaxLen
        /\ Commit(r.st, [op |-> "SETRANGE", key |-> key, expired |-> Was({key}),
                         offset |-> offset,
                         val |-> value, n |-> r.n, err |-> NoErr])

\* what the four numeric commands do with the result of the storage call
Numeric(name, key, num, r) ==
    Commit(r.st, [op |-> name, key |-> key,
                  expired |-> Was({key}), num |-> num, n |-> r.n,
                  err |-> IF r.err THEN ErrParseInt ELSE NoErr])

IncrCommand(K) == \E key \in K : Numeric("INCR", key, 1, Incr(St, key))

DecrCommand(K) == \E key \in K : Numeric("DECR", key, 1, Decr(St, key))

IncrByCommand(K) ==
    \E key \in K, increment \in DeltaSet :
        Numeric("INCRBY", key, increment, IncrBy(St, key, increment))

DecrByCommand(K) ==
    \E key \in K, decrement \in DeltaSet :
        Numeric("DECRBY", key, decrement, DecrBy(St, key, decrement))

MGetCommand(K) ==
    \E keys \in KeyLists(K) :
        Commit(St, [op |-> "MGET", keys |-> keys, expired |-> Was(Range(keys)),
                    vals |-> MGet(St, now, keys),
                    err |-> NoErr])

\* the maps an MSET request builds: one or more keys, each with a value
PairMaps(K) == UNION {[D -> ValSet] : D \in (SUBSET K) \ {{}}}

MSetCommand(K) ==
    \E pairs \in PairMaps(K) :
        Commit(MSet(St, pairs), [op |-> "MSET", pairs |-> pairs,
                                 expired |-> Was(DOMAIN pairs), err |-> NoErr])

GetSetCommand(K) ==
    \E key \in K, val \in ValSet :
        LET r == GetSet(St, key, val) IN
        Commit(r.st, [op |-> "GETSET", key |-> key, expired |-> Was({key}),
                      val |-> val,
                      oldVal |-> r.oldVal, exists |-> r.exists,
                      err |-> IF r.exists THEN NoErr ELSE ErrKeyNotFound])

\* the orders in which a range over the map can deliver the keys of set ks
Orders(ks) ==
    {s \in [1..Cardinality(ks) -> ks] : \A i, j \in DOMAIN s : i # j => s[i] # s[j]}

\* KEYS pattern, for the patterns of the set P
KeysCommandOf(P) ==
    \E pattern \in P :
        \E keys \in Orders(Keys(St, now, pattern)) :
            Commit(St, [op |-> "KEYS", pattern |-> pattern, keys |-> keys,
                        expired |-> Was(DOMAIN data),
                        err |-> NoErr])

KeysCommand == KeysCommandOf(PatternSet)

FlushAllCommand ==
    Commit(FlushAll(St), [op |-> "FLUSHALL", expired |-> {}, err |-> NoErr])

\* the clock advances between two commands
Tick ==
    /\ now < MaxTime
    /\ now' = now + 1
    /\ last' = [op |-> "Tick", expired |-> {}, err |-> NoErr]
    /\ UNCHANGED <<data, expiry, counters>>
    /\ UNCHANGED cvars
    /\ UNCHANGED svars

NoCall == [op |-> "none", key |-> <<>>, val |-> <<>>, num |-> 0]
NoLoc == [val |-> <<>>, exists |-> FALSE, ret |-> [ok |-> FALSE, n |-> 0, val |-> <<>>]]

\* a worker that has read no request yet
NoCur == [seq |-> 0, sent |-> 0, req |-> [type |-> "Array", array |-> <<>>],
          cmd |-> [op |-> "none"], err |-> NoErr]

\* the server loop holds no message
NoMsg == [peer |-> 0, seq |-> 0, cmd |-> [op |-> "none"],
          frame |-> [kind |-> "none", bytes |-> <<>>, msg |-> ""]]

\* NewServer, with every connection accepted and its worker started
NewServer ==
    /\ peerPc = [p \in Peers |-> "connect"]
    /\ cur = [p \in Peers |-> NoCur]
    /\ outbox = [p \in Peers |-> <<>>]
    /\ stalled = {}
    /\ loopPc = "select"
    /\ loopMsg = NoMsg
    /\ peers = {}
    /\ exited = FALSE

\* the store after NewStorage, the clock at 0, no storage call in progress
InitStore ==
    /\ data = NewStorage.data
    /\ expiry = NewStorage.expiry
    /\ counters = NewStorage.counters
    /\ now = 0
    /\ last = [op |-> "Init", expired |-> {}, err |-> NoErr]
    /\ pc = [p \in Procs |-> "idle"]
    /\ call = [p \in Procs |-> NoCall]
    /\ loc = [p \in Procs |-> NoLoc]
    /\ readers = {}
    /\ writer = 0
    /\ returned = [p \in Procs |-> <<>>]
    /\ fatal = FALSE

Init == InitStore /\ NewServer

\* the commands that create, read and remove keys, on two keys
Next ==
    \/ SetCommand(KeySet)
    \/ GetCommand(KeySet)
    \/ DelCommand(KeySet)
    \/ ExistsCommand(KeySet)
    \/ StrlenCommand(KeySet)
    \/ GetRangeCommand(KeySet)
    \/ MGetCommand(KeySet)
    \/ MSetCommand(KeySet)
    \/ GetSetCommand(KeySet)
    \/ KeysCommand
    \/ FlushAllCommand
    \/ Tick

Spec == Init /\ [][Next]_vars

\* every command that takes one key, on one key
NextEdit ==
    \/ SetCommand(EditKeys)
    \/ GetCommand(EditKeys)
    \/ DelCommand(EditKeys)
    \/ ExistsCommand(EditKeys)
    \/ AppendCommand(EditKeys)
    \/ StrlenCommand(EditKeys)
    \/ GetRangeCommand(EditKeys)
    \/ SetRangeCommand(EditKeys)
    \/ IncrCommand(EditKeys)
    \/ DecrCommand(EditKeys)
    \/ IncrByCommand(EditKeys)
    \/ DecrByCommand(EditKeys)
    \/ GetSetCommand(EditKeys)
    \/ FlushAllCommand
    \/ Tick

SpecEdit == Init /\ [][NextEdit]_vars

\* SET, APPEND and GET on two keys
NextAppend ==
    \/ SetCommand(KeySet)
    \/ AppendCommand(KeySet)
    \/ GetCommand(KeySet)
    \/ Tick

SpecAppend == Init /\ [][NextAppend]_vars

\* ---- concurrent callers of Storage -----------------------------------------
\* Each goroutine calls storage methods one after the other.  A method is
\* the steps: take s.mu, the statements of its body, release s.mu and return.

\* every method taking s.mu in shared mode
LockMode_Shared(op) == "R"

\* GetSet under s.mu.RLock()
LockMode_GetSetShared(op) ==
    IF op \in {"Get", "Exists", "MGet", "GetSet"} THEN "R" ELSE "W"

\* the mode in which each method takes s.mu: "R" for RLock, "W" for Lock
LockMode(op) == IF op \in {"Get", "Exists", "MGet"} THEN "R" ELSE "W"

\* the first statement of each method's body
Entry(op) ==
    CASE op = "Get" -> "GetCheck"
      [] op = "Exists" -> "ExistsBody"
      [] op = "SetWithExpiry" -> "SetWithExpiryBody"
      [] op = "IncrBy" -> "IncrByRead"
      [] op = "MGet" -> "MGetRead"
      [] op = "MSet" -> "MSetWrite"
      [] op = "GetSet" -> "GetSetRead"

\* a goroutine enters a method
Enter(p, c) ==
    /\ ~fatal
    /\ pc[p] = "idle"
    /\ Len(returned[p]) < MaxCalls
    /\ call' = [call EXCEPT ![p] = c]
    /\ pc' = [pc EXCEPT ![p] = "lock"]
    /\ UNCHANGED svars
    /\ UNCHANGED <<data, expiry, counters, now, last, loc, readers, writer,
                   returned, fatal>>

\* Incr(key): IncrBy(key, 1)
CallIncr(p) ==
    \E key \in EditKeys :
        Enter(p, [op |-> "IncrBy", key |-> key, val |-> <<>>, num |-> 1])

CallGet(p) ==
    \E key \in EditKeys :
        Enter(p, [op |-> "Get", key |-> key, val |-> <<>>, num |-> 0])

CallExists(p) ==
    \E key \in EditKeys :
        Enter(p, [op |-> "Exists", key |-> key, val |-> <<>>, num |-> 0])

CallSetWithExpiry(p) ==
    \E key \in EditKeys, val \in ValSet, d \in 1..MaxDur :
        Enter(p, [op |-> "SetWithExpiry", key |-> key, val |-> val, num |-> d])

CallGetSet(p) ==
    \E key \in EditKeys, val \in ValSet :
        Enter(p, [op |-> "GetSet", key |-> key, val |-> val, num |-> 0])

\* Goroutine 1 is the one that writes batches, the others read.
\* MGet(keys) of the two keys, in either order; call.key holds the key list
CallMGet(p) ==
    /\ p # 1
    /\ \E k1 \in KeySet :
         \E k2 \in KeySet \ {k1} :
             Enter(p, [op |-> "MGet", key |-> <<k1, k2>>, val |-> <<>>,
                       num |-> 0])

\* MSet(pairs) of a batch that gives both keys the same value; call.val holds
\* the map pairs
CallMSet(p) ==
    /\ p = 1
    /\ \E v \in ValSet :
         Enter(p, [op |-> "MSet", key |-> <<>>, val |-> [k \in KeySet |-> v],
                   num |-> 0])

\* s.mu.RLock() / s.mu.Lock()
Acquire(p) ==
    /\ ~fatal
    /\ pc[p] = "lock"
    /\ writer = 0
    /\ IF LockMode(call[p].op) = "R"
       THEN readers' = readers \cup {p} /\ writer' = writer
       ELSE readers = {} /\ writer' = p /\ readers' = readers
    /\ pc' = [pc EXCEPT ![p] = Entry(call[p].op)]
    /\ UNCHANGED svars
    /\ UNCHANGED <<data, expiry, counters, now, last, call, loc, returned, fatal>>

\* a statement of p that writes a map: when another goroutine is inside a
\* method body at that moment the two accesses race, and the runtime either
\* detects the concurrent map access and aborts the process or does not
Racy(p) == (readers \cup (IF writer = 0 THEN {} ELSE {writer})) \ {p} # {}
MapWrite(p) == fatal' \in (IF Racy(p) THEN {FALSE, TRUE} ELSE {FALSE})

\* the result a method returns
Result(ok, n, val) == [ok |-> ok, n |-> n, val |-> val]

NoResult == Result(FALSE, 0, <<>>)

\* p moves to statement `to` with its locals set to l
Goto(p, to, l) ==
    /\ pc' = [pc EXCEPT ![p] = to]
    /\ loc' = [loc EXCEPT ![p] = l]

\* IncrBy: `if val, exists := s.data[keyStr]; exists`
IncrByRead(p) ==
    /\ ~fatal
    /\ pc[p] = "IncrByRead"
    /\ Goto(p, "IncrByWrite",
            IF Has(data, call[p].key)
            THEN [val |-> data[call[p].key], exists |-> TRUE, ret |-> NoResult]
            ELSE [val |-> <<>>, exists |-> FALSE, ret |-> NoResult])
    /\ UNCHANGED svars
    /\ UNCHANGED <<data, expiry, counters, now, last, call, readers, writer,
                   returned, fatal>>

\* IncrBy: the parse of the value read, the addition, the two stores
IncrByWrite(p) ==
    /\ ~fatal
    /\ pc[p] = "IncrByWrite"
    /\ LET key == call[p].key
           \* the store as p read it
           S0  == IF loc[p].exists
                  THEN [St EXCEPT !.data = Put(@, key, loc[p].val)]
                  ELSE [St EXCEPT !.data = Remove(@, key)]
           r   == IncrBy(S0, key, call[p].num)
       IN  /\ IF r.err
              THEN UNCHANGED <<data, counters, fatal>>
              ELSE /\ data' = Put(data, key, r.st.data[key])
                   /\ counters' = Put(counters, key, r.st.counters[key])
                   /\ MapWrite(p)
           /\ Goto(p, "unlock", [loc[p] EXCEPT !.ret = Result(~r.err, r.n, <<>>)])
    /\ UNCHANGED svars
    /\ UNCHANGED <<expiry, now, last, call, readers, writer, returned>>

\* Get: `if expTime, exists := s.expiry[keyStr]; exists { if time.Now().After`
GetCheck(p) ==
    /\ ~fatal
    /\ pc[p] = "GetCheck"
    /\ Goto(p, IF Expired(St, now, call[p].key) THEN "GetPurgeData" ELSE "GetRead",
            NoLoc)
    /\ UNCHANGED svars
    /\ UNCHANGED <<data, expiry, counters, now, last, call, readers, writer,
                   returned, fatal>>

\* Get: delete(s.data, keyStr)
GetPurgeData(p) ==
    /\ ~fatal
    /\ pc[p] = "GetPurgeData"
    /\ data' = Remove(data, call[p].key)
    /\ MapWrite(p)
    /\ Goto(p, "GetPurgeExpiry", loc[p])
    /\ UNCHANGED svars
    /\ UNCHANGED <<expiry, counters, now, last, call, readers, writer, returned>>

\* Get: delete(s.expiry, keyStr); return nil, false
GetPurgeExpiry(p) ==
    /\ ~fatal
    /\ pc[p] = "GetPurgeExpiry"
    /\ expiry' = Remove(expiry, call[p].key)
    /\ MapWrite(p)
    /\ Goto(p, "unlock", [loc[p] EXCEPT !.ret = Result(FALSE, 0, Nil)])
    /\ UNCHANGED svars
    /\ UNCHANGED <<data, counters, now, last, call, readers, writer, returned>>

\* Get: val, ok := s.data[keyStr]; return val, ok
GetRead(p) ==
    /\ ~fatal
    /\ pc[p] = "GetRead"
    /\ Goto(p, "unlock",
            [loc[p] EXCEPT !.ret =
                IF Has(data, call[p].key)
                THEN Result(TRUE, 0, Some(data[call[p].key]))
                ELSE Result(FALSE, 0, Nil)])
    /\ UNCHANGED svars
    /\ UNCHANGED <<data, expiry, counters, now, last, call, readers, writer,
                   returned, fatal>>

\* Exists: the body, which reads expiry, the clock and data
ExistsBody(p) ==
    /\ ~fatal
    /\ pc[p] = "ExistsBody"
    /\ Goto(p, "unlock",
            [loc[p] EXCEPT !.ret = Result(Exists(St, now, call[p].key), 0, <<>>)])
    /\ UNCHANGED svars
    /\ UNCHANGED <<data, expiry, counters, now, last, call, readers, writer,
                   returned, fatal>>

\* SetWithExpiry: the body, which writes data and expiry
SetWithExpiryBody(p) ==
    /\ ~fatal
    /\ pc[p] = "SetWithExpiryBody"
    /\ LET S == SetWithExpiry(St, now, call[p].key, call[p].val, call[p].num)
       IN  data' = S.data /\ expiry' = S.expiry
    /\ MapWrite(p)
    /\ Goto(p, "unlock", [loc[p] EXCEPT !.ret = Result(TRUE, 0, <<>>)])
    /\ UNCHANGED svars
    /\ UNCHANGED <<counters, now, last, call, readers, writer, returned>>

\* MGet: one iteration of `for i, key := range keys`, which fills slot i;
\* loc.ret.val holds the slots filled so far
MGetRead(p) ==
    /\ ~fatal
    /\ pc[p] = "MGetRead"
    /\ LET keys    == call[p].key
           i       == Len(loc[p].ret.val) + 1
           results == loc[p].ret.val \o MGet(St, now, <<keys[i]>>)
       IN  Goto(p, IF i = Len(keys) THEN "unlock" ELSE "MGetRead",
                [loc[p] EXCEPT !.ret = Result(TRUE, 0, results)])
    /\ UNCHANGED svars
    /\ UNCHANGED <<data, expiry, counters, now, last, call, readers, writer,
                   returned, fatal>>

\* MSet: one iteration of `for key, val := range pairs`, in the order the map
\* delivers the pairs; loc.val holds the keys written so far
MSetWrite(p) ==
    /\ ~fatal
    /\ pc[p] = "MSetWrite"
    /\ LET pairs == call[p].val
           done  == Range(loc[p].val)
       IN  \E key \in (DOMAIN pairs) \ done :
               /\ data' = Put(data, key, pairs[key])
               /\ expiry' = Remove(expiry, key)
               /\ MapWrite(p)
               /\ Goto(p, IF done \cup {key} = DOMAIN pairs
                           THEN "unlock" ELSE "MSetWrite",
                        [loc[p] EXCEPT !.val = Append(@, key),
                                       !.ret = Result(TRUE, 0, <<>>)])
    /\ UNCHANGED svars
    /\ UNCHANGED <<counters, now, last, call, readers, writer, returned>>

\* GetSet: oldVal, exists := s.data[keyStr]
GetSetRead(p) ==
    /\ ~fatal
    /\ pc[p] = "GetSetRead"
    /\ Goto(p, "GetSetWrite",
            IF Has(data, call[p].key)
            THEN [val |-> data[call[p].key], exists |-> TRUE, ret |-> NoResult]
            ELSE [val |-> <<>>, exists |-> FALSE, ret |-> NoResult])
    /\ UNCHANGED svars
    /\ UNCHANGED <<data, expiry, counters, now, last, call, readers, writer,
                   returned, fatal>>

\* GetSet: s.data[keyStr] = val
GetSetWrite(p) ==
    /\ ~fatal
    /\ pc[p] = "GetSetWrite"
    /\ data' = Put(data, call[p].key, call[p].val)
    /\ MapWrite(p)
    /\ Goto(p, "GetSetDelete", loc[p])
    /\ UNCHANGED svars
    /\ UNCHANGED <<expiry, counters, now, last, call, readers, writer, returned>>

\* GetSet: delete(s.expiry, keyStr); return oldVal, exists
GetSetDelete(p) ==
    /\ ~fatal
    /\ pc[p] = "GetSetDelete"
    /\ expiry' = Remove(expiry, call[p].key)
    /\ MapWrite(p)
    /\ Goto(p, "unlock",
            [loc[p] EXCEPT !.ret = Result(loc[p].exists, 0,
                                          IF loc[p].exists THEN Some(loc[p].val)
                                          ELSE Nil)])
    /\ UNCHANGED svars
    /\ UNCHANGED <<data, counters, now, last, call, readers, writer, returned>>

\* the deferred s.mu.RUnlock() / s.mu.Unlock(), and the return
Release(p) ==
    /\ ~fatal
    /\ pc[p] = "unlock"
    /\ readers' = readers \ {p}
    /\ writer' = IF writer = p THEN 0 ELSE writer
    /\ returned' = [returned EXCEPT
                       ![p] = Append(@, [op |-> call[p].op, ret |-> loc[p].ret])]
    /\ pc' = [pc EXCEPT ![p] = "idle"]
    /\ call' = [call EXCEPT ![p] = NoCall]
    /\ loc' = [loc EXCEPT ![p] = NoLoc]
    /\ UNCHANGED svars
    /\ UNCHANGED <<data, expiry, counters, now, last, fatal>>

\* the clock advances while the goroutines run
Tock ==
    /\ ~fatal
    /\ now < MaxTime
    /\ now' = now + 1
    /\ UNCHANGED svars
    /\ UNCHANGED <<data, expiry, counters, last, pc, call, loc, readers, writer,
                   returned, fatal>>

\* concurrent Incr calls only
NextIncr ==
    \E p \in Procs :
        \/ CallIncr(p)
        \/ Acquire(p)
        \/ IncrByRead(p)
        \/ IncrByWrite(p)
        \/ Release(p)

SpecIncr == Init /\ [][NextIncr]_vars

\* concurrent calls of Get, Exists, SetWithExpiry and Incr
NextConc ==
    \/ \E p \in Procs :
        \/ CallIncr(p)
        \/ CallGet(p)
        \/ CallExists(p)
        \/ CallSetWithExpiry(p)
        \/ Acquire(p)
        \/ IncrByRead(p)
        \/ IncrByWrite(p)
        \/ GetCheck(p)
        \/ GetPurgeData(p)
        \/ GetPurgeExpiry(p)
        \/ GetRead(p)
        \/ ExistsBody(p)
        \/ SetWithExpiryBody(p)
        \/ Release(p)
    \/ Tock

SpecConc == Init /\ [][NextConc]_vars

\* concurrent calls of MSet and MGet
NextBatch ==
    \E p \in Procs :
        \/ CallMGet(p)
        \/ CallMSet(p)
        \/ Acquire(p)
        \/ MGetRead(p)
        \/ MSetWrite(p)
        \/ Release(p)

SpecBatch == Init /\ [][NextBatch]_vars

\* GetSet calls of goroutine 1, concurrent with the SetWithExpiry and Get
\* calls of goroutine 2
NextSwap ==
    \/ \E p \in Procs :
        \/ p = 1 /\ CallGetSet(p)
        \/ p = 2 /\ CallSetWithExpiry(p)
        \/ p = 2 /\ CallGet(p)
        \/ Acquire(p)
        \/ GetSetRead(p)
        \/ GetSetWrite(p)
        \/ GetSetDelete(p)
        \/ SetWithExpiryBody(p)
        \/ GetCheck(p)
        \/ GetPurgeData(p)
        \/ GetPurgeExpiry(p)
        \/ GetRead(p)
        \/ Release(p)
    \/ Tock

SpecSwap == Init /\ [][NextSwap]_vars

\* ---- peer.go: requests and their parsing ----------------------------------
\* A decoded wire value v is [type, array]; the array holds the tokens, each a
\* byte sequence.  A parse result is [cmd, err], err = NoErr on success.

\* strings.ToUpper on ASCII
ToUpper(s) == [i \in 1..Len(s) |-> IF s[i] \in 97..122 THEN s[i] - 32 ELSE s[i]]

\* the command names of commands.go, as bytes
CommandName ==
    [SET |-> <<83, 69, 84>>,
     GET |-> <<71, 69, 84>>,
     DEL |-> <<68, 69, 76>>,
     EXISTS |-> <<69, 88, 73, 83, 84, 83>>,
     APPEND |-> <<65, 80, 80, 69, 78, 68>>,
     STRLEN |-> <<83, 84, 82, 76, 69, 78>>,
     GETRANGE |-> <<71, 69, 84, 82, 65, 78, 71, 69>>,
     SETRANGE |-> <<83, 69, 84, 82, 65, 78, 71, 69>>,
     INCR |-> <<73, 78, 67, 82>>,
     DECR |-> <<68, 69, 67, 82>>,
     INCRBY |-> <<73, 78, 67, 82, 66, 89>>,
     DECRBY |-> <<68, 69, 67, 82, 66, 89>>,
     MGET |-> <<77, 71, 69, 84>>,
     MSET |-> <<77, 83, 69, 84>>,
     GETSET |-> <<71, 69, 84, 83, 69, 84>>,
     KEYS |-> <<75, 69, 89, 83>>,
     FLUSHALL |-> <<70, 76, 85, 83, 72, 65, 76, 76>>,
     HELLO |-> <<72, 69, 76, 76, 79>>,
     CLIENT |-> <<67, 76, 73, 69, 78, 84>>,
     PING |-> <<80, 73, 78, 71>>]

\* "EX" and the default HELLO value "2"
TokenEX == <<69, 88>>
TokenTwo == <<50>>

NoCmd == [op |-> "none"]
Parsed(cmd) == [cmd |-> cmd, err |-> NoErr]
ParseError(msg) == [cmd |-> NoCmd, err |-> msg]

\* In the parse functions arr[i + 1] is Go's arr[i].
\* time.Second, in units of time.Duration
Second == 2

\* `cmd.expiry = time.Duration(seconds) * time.Second`: an int64 product
parseSetCommand(arr) ==
    IF Len(arr) < 3
    THEN ParseError("wrong number of arguments for 'SET' command")
    ELSE LET cmd == [op |-> "SET", key |-> arr[2], val |-> arr[3], expiry |-> 0] IN
         IF Len(arr) >= 5 /\ ToUpper(arr[4]) = TokenEX
         THEN LET seconds == ParseInt(arr[5]) IN
              IF ~seconds.ok THEN ParseError("invalid expire time")
              ELSE Parsed([cmd EXCEPT !.expiry = Wrap(seconds.n * Second)])
         ELSE Parsed(cmd)

\* parseGetCommand with `len(arr) < 2` for the test of the length
parseGetCommand_AtLeast(arr) ==
    IF Len(arr) < 2
    THEN ParseError("wrong number of arguments for 'GET' command")
    ELSE Parsed([op |-> "GET", key |-> arr[2]])

parseGetCommand(arr) ==
    IF Len(arr) # 2
    THEN ParseError("wrong number of arguments for 'GET' command")
    ELSE Parsed([op |-> "GET", key |-> arr[2]])

parseDelCommand(arr) ==
    IF Len(arr) < 2
    THEN ParseError("wrong number of arguments for 'DEL' command")
    ELSE Parsed([op |-> "DEL", keys |-> Tail(arr)])

parseExistsCommand(arr) ==
    IF Len(arr) < 2
    THEN ParseError("wrong number of arguments for 'EXISTS' command")
    ELSE Parsed([op |-> "EXISTS", keys |-> Tail(arr)])

parseAppendCommand(arr) ==
    IF Len(arr) # 3
    THEN ParseError("wrong number of arguments for 'APPEND' command")
    ELSE Parsed([op |-> "APPEND", key |-> arr[2], val |-> arr[3]])

parseStrlenCommand(arr) ==
    IF Len(arr) # 2
    THEN ParseError("wrong number of arguments for 'STRLEN' command")
    ELSE Parsed([op |-> "STRLEN", key |-> arr[2]])

parseGetRangeCommand(arr) ==
    IF Len(arr) # 4
    THEN ParseError("wrong number of arguments for 'GETRANGE' command")
    ELSE LET start == ParseInt(arr[3])
             end   == ParseInt(arr[4])
         IN  IF ~start.ok THEN ParseError("invalid start index")
             ELSE IF ~end.ok THEN ParseError("invalid end index")
             ELSE Parsed([op |-> "GETRANGE", key |-> arr[2],
                          start |-> start.n, end |-> end.n])

parseSetRangeCommand(arr) ==
    IF Len(arr) # 4
    THEN ParseError("wrong number of arguments for 'SETRANGE' command")
    ELSE LET offset == ParseInt(arr[3]) IN
         IF ~offset.ok THEN ParseError("invalid offset")
         ELSE Parsed([op |-> "SETRANGE", key |-> arr[2], offset |-> offset.n,
                      val |-> arr[4]])

parseIncrCommand(arr) ==
    IF Len(arr) # 2
    THEN ParseError("wrong number of arguments for 'INCR' command")
    ELSE Parsed([op |-> "INCR", key |-> arr[2]])

parseDecrCommand(arr) ==
    IF Len(arr) # 2
    THEN ParseError("wrong number of arguments for 'DECR' command")
    ELSE Parsed([op |-> "DECR", key |-> arr[2]])

parseIncrByCommand(arr) ==
    IF Len(arr) # 3
    THEN ParseError("wrong number of arguments for 'INCRBY' command")
    ELSE LET increment == ParseInt(arr[3]) IN
         IF ~increment.ok THEN ParseError("invalid increment value")
         ELSE Parsed([op |-> "INCRBY", key |-> arr[2], num |-> increment.n])

parseDecrByCommand(arr) ==
    IF Len(arr) # 3
    THEN ParseError("wrong number of arguments for 'DECRBY' command")
    ELSE LET decrement == ParseInt(arr[3]) IN
         IF ~decrement.ok THEN ParseError("invalid decrement value")
         ELSE Parsed([op |-> "DECRBY", key |-> arr[2], num |-> decrement.n])

parseMGetCommand(arr) ==
    IF Len(arr) < 2
    THEN ParseError("wrong number of arguments for 'MGET' command")
    ELSE Parsed([op |-> "MGET", keys |-> Tail(arr)])

\* `for i := 1; i < len(arr); i += 2 { pairs[key] = val }` from position i on
RECURSIVE PairsFrom(_, _, _)
PairsFrom(arr, i, pairs) ==
    IF i >= Len(arr) THEN pairs
    ELSE PairsFrom(arr, i + 2, Put(pairs, arr[i + 1], arr[i + 2]))

parseMSetCommand(arr) ==
    IF Len(arr) < 3 \/ Len(arr) % 2 = 0
    THEN ParseError("wrong number of arguments for 'MSET' command")
    ELSE Parsed([op |-> "MSET", pairs |-> PairsFrom(arr, 1, EmptyMap)])

parseGetSetCommand(arr) ==
    IF Len(arr) # 3
    THEN ParseError("wrong number of arguments for 'GETSET' command")
    ELSE Parsed([op |-> "GETSET", key |-> arr[2], val |-> arr[3]])

parseKeysCommand(arr) ==
    IF Len(arr) # 2
    THEN ParseError("wrong number of arguments for 'KEYS' command")
    ELSE Parsed([op |-> "KEYS", pattern |-> arr[2]])

parseFlushAllCommand(arr) ==
    IF Len(arr) # 1
    THEN ParseError("wrong number of arguments for 'FLUSHALL' command")
    ELSE Parsed([op |-> "FLUSHALL"])

parseHelloCommand(arr) ==
    Parsed([op |-> "HELLO", val |-> IF Len(arr) > 1 THEN arr[2] ELSE TokenTwo])

parseClientCommand(arr) ==
    Parsed([op |-> "CLIENT", val |-> IF Len(arr) > 1 THEN arr[2] ELSE <<>>])

parsePingCommand(arr) ==
    Parsed([op |-> "PING", val |-> IF Len(arr) > 1 THEN arr[2] ELSE <<>>])

\* parseCommand as peer.go has it: the switch holds its default case only
parseCommand(v) ==
    IF v.type # "Array" THEN ParseError("expected array")
    ELSE IF Len(v.array) = 0 THEN ParseError("empty command")
    ELSE LET cmdName == ToUpper(v.array[1]) IN
         ParseError("unknown commands")

\* parseCommand as the documented version of the file has it: one case per
\* command name
parseCommandDispatch(v) ==
    IF v.type # "Array" THEN ParseError("expected array")
    ELSE IF Len(v.array) = 0 THEN ParseError("empty command")
    ELSE LET arr     == v.array
             cmdName == ToUpper(arr[1])
         IN  CASE cmdName = CommandName.SET -> parseSetCommand(arr)
               [] cmdName = CommandName.GET -> parseGetCommand(arr)
               [] cmdName = CommandName.DEL -> parseDelCommand(arr)
               [] cmdName = CommandName.EXISTS -> parseExistsCommand(arr)
               [] cmdName = CommandName.APPEND -> parseAppendCommand(arr)
               [] cmdName = CommandName.STRLEN -> parseStrlenCommand(arr)
               [] cmdName = CommandName.GETRANGE -> parseGetRangeCommand(arr)
               [] cmdName = CommandName.SETRANGE -> parseSetRangeCommand(arr)
               [] cmdName = CommandName.INCR -> parseIncrCommand(arr)
               [] cmdName = CommandName.DECR -> parseDecrCommand(arr)
               [] cmdName = CommandName.INCRBY -> parseIncrByCommand(arr)
               [] cmdName = CommandName.DECRBY -> parseDecrByCommand(arr)
               [] cmdName = CommandName.MGET -> parseMGetCommand(arr)
               [] cmdName = CommandName.MSET -> parseMSetCommand(arr)
               [] cmdName = CommandName.GETSET -> parseGetSetCommand(arr)
               [] cmdName = CommandName.KEYS -> parseKeysCommand(arr)
               [] cmdName = CommandName.FLUSHALL -> parseFlushAllCommand(arr)
               [] cmdName = CommandName.HELLO -> parseHelloCommand(arr)
               [] cmdName = CommandName.CLIENT -> parseClientCommand(arr)
               [] cmdName = CommandName.PING -> parsePingCommand(arr)
               [] OTHER -> ParseError("unknown command")

\* ---- commands.go: Execute and the reply encoders ---------------------------
CRLF == <<13, 10>>
\* "OK" and "PONG"
BytesOK == <<79, 75>>
BytesPONG == <<80, 79, 78, 71>>

\* resp.Writer.WriteNull: "$-1\r\n"
RespNull == <<36, 45, 49>> \o CRLF

\* resp.Writer.WriteBytes: "$<len>\r\n<bytes>\r\n"
RespBulk(b) == <<36>> \o FormatInt(Len(b)) \o CRLF \o b \o CRLF

\* the loop `for _, item := range arr` of respWriteArray from position i on
RECURSIVE RespItems(_, _)
RespItems(arr, i) ==
    IF i > Len(arr) THEN <<>>
    ELSE (IF arr[i] = Nil THEN RespNull ELSE RespBulk(arr[i][1]))
         \o RespItems(arr, i + 1)

respWriteArray(arr) == <<42>> \o FormatInt(Len(arr)) \o CRLF \o RespItems(arr, 1)

\* the map HelloCommand.Execute builds, as <<key, value>> pairs
HelloSpec ==
    {<<<<115, 101, 114, 118, 101, 114>>, <<114, 101, 100, 105, 115, 45, 99, 108, 111, 110, 101>>>>,
     <<<<118, 101, 114, 115, 105, 111, 110>>, <<49, 46, 48, 46, 48>>>>,
     <<<<112, 114, 111, 116, 111>>, <<50>>>>,
     <<<<109, 111, 100, 101>>, <<115, 116, 97, 110, 100, 97, 108, 111, 110, 101>>>>}

\* the loop `for k, v := range m` of respWriteMap over the pairs in order ps
RECURSIVE RespPairs(_, _)
RespPairs(ps, i) ==
    IF i > Len(ps) THEN <<>>
    ELSE <<43>> \o ps[i][1] \o CRLF \o <<43>> \o ps[i][2] \o CRLF
         \o RespPairs(ps, i + 1)

\* respWriteMap for the iteration order ps of the map
respWriteMap(ps) == <<37>> \o FormatInt(Len(ps)) \o CRLF \o RespPairs(ps, 1)

\* what Execute returns and leaves in the store; panic is set when the call
\* does not return
Outcome(S, result, err) == [st |-> S, result |-> result, err |-> err, panic |-> FALSE]

\* the outcome of the four numeric commands, from the result r of the storage call
NumericOutcome(r) ==
    IF r.err THEN Outcome(r.st, Nil, ErrParseInt)
    ELSE Outcome(r.st, Some(FormatInt(r.n)), NoErr)

\* Command.Execute(storage) at instant t: the outcomes the call can have (one,
\* except where the iteration order of a map shows in the result)
Executions(cmd, S, t) ==
    CASE cmd.op = "SET" ->
           {Outcome(IF cmd.expiry > 0
                    THEN SetWithExpiry(S, t, cmd.key, cmd.val, cmd.expiry \div Second)
                    ELSE Set(S, cmd.key, cmd.val),
                    Some(BytesOK), NoErr)}
      [] cmd.op = "GET" ->
           LET r == Get(S, t, cmd.key) IN
           {IF ~r.ok THEN Outcome(r.st, Nil, ErrKeyNotFound)
                     ELSE Outcome(r.st, r.val, NoErr)}
      [] cmd.op = "DEL" ->
           LET r == DelLoop(S, cmd.keys, 1, 0) IN
           {Outcome(r.st, Some(FormatInt(r.count)), NoErr)}
      [] cmd.op = "EXISTS" ->
           {Outcome(S, Some(FormatInt(Cardinality({i \in 1..Len(cmd.keys) :
                                                     Exists(S, t, cmd.keys[i])}))),
                    NoErr)}
      [] cmd.op = "APPEND" ->
           LET r == StorageAppend(S, cmd.key, cmd.val) IN
           {Outcome(r.st, Some(FormatInt(r.n)), NoErr)}
      [] cmd.op = "STRLEN" ->
           {Outcome(S, Some(FormatInt(Strlen(S, t, cmd.key))), NoErr)}
      [] cmd.op = "GETRANGE" ->
           {Outcome(S, Some(GetRange(S, t, cmd.key, cmd.start, cmd.end)), NoErr)}
      [] cmd.op = "SETRANGE" ->
           \* existing[offset:] with a negative offset panics
           IF cmd.offset < 0
           THEN {[Outcome(S, Nil, NoErr) EXCEPT !.panic = TRUE]}
           ELSE LET r == SetRange(S, cmd.key, cmd.offset, cmd.val) IN
                {Outcome(r.st, Some(FormatInt(r.n)), NoErr)}
      [] cmd.op = "INCR" -> {NumericOutcome(Incr(S, cmd.key))}
      [] cmd.op = "DECR" -> {NumericOutcome(Decr(S, cmd.key))}
      [] cmd.op = "INCRBY" -> {NumericOutcome(IncrBy(S, cmd.key, cmd.num))}
      [] cmd.op = "DECRBY" -> {NumericOutcome(DecrBy(S, cmd.key, cmd.num))}
      [] cmd.op = "MGET" ->
           {Outcome(S, Some(respWriteArray(MGet(S, t, cmd.keys))), NoErr)}
      [] cmd.op = "MSET" -> {Outcome(MSet(S, cmd.pairs), Some(BytesOK), NoErr)}
      [] cmd.op = "GETSET" ->
           LET r == GetSet(S, cmd.key, cmd.val) IN
           {IF ~r.exists THEN Outcome(r.st, Nil, ErrKeyNotFound)
                         ELSE Outcome(r.st, r.oldVal, NoErr)}
      [] cmd.op = "KEYS" ->
           {Outcome(S, Some(respWriteArray([i \in 1..Len(keys) |-> Some(keys[i])])),
                    NoErr) : keys \in Orders(Keys(S, t, cmd.pattern))}
      [] cmd.op = "FLUSHALL" -> {Outcome(FlushAll(S), Some(BytesOK), NoErr)}
      [] cmd.op = "HELLO" ->
           {Outcome(S, Some(respWriteMap(ps)), NoErr) : ps \in Orders(HelloSpec)}
      [] cmd.op = "CLIENT" -> {Outcome(S, Some(BytesOK), NoErr)}
      [] cmd.op = "PING" ->
           {Outcome(S, Some(IF cmd.val = <<>> THEN BytesPONG ELSE cmd.val), NoErr)}

\* ---- handlers.go ------------------------------------------------------------
isRESPFormatted(bytes) ==
    IF Len(bytes) = 0 THEN FALSE
    ELSE bytes[1] \in {43, 45, 58, 36, 42, 37}

\* the frame handleMessage writes for what Execute returned: WriteError of
\* "ERR " and the error text, the result as it is, WriteBytes of the result,
\* or WriteNull
Reply(result, err) ==
    IF err # NoErr THEN [kind |-> "error", bytes |-> <<>>, msg |-> err]
    ELSE IF result # Nil
         THEN IF isRESPFormatted(result[1])
              THEN [kind |-> "raw", bytes |-> result[1], msg |-> ""]
              ELSE [kind |-> "bulk", bytes |-> result[1], msg |-> ""]
         ELSE [kind |-> "null", bytes |-> <<>>, msg |-> ""]

\* ---- main.go, peer.go, handlers.go: the running server -----------------------
\* Each accepted connection has a worker goroutine (handleConnection, then
\* readLoop); one goroutine runs Server.loop.  The three channels are
\* unbuffered, so a send and the matching receive of the loop's select are one
\* step.  The switch of parseCommand in peer.go holds no case, so that build
\* passes no request on to the loop; the workers here run the parse functions
\* behind the documented switch (parseCommandDispatch).

\* tokens of the requests the clients send: "a", "1", "x", "FOO", "get"
TokA == <<97>>
TokOne == <<49>>
TokX == <<120>>
TokFOO == <<70, 79, 79>>
TokGetLower == <<103, 101, 116>>

\* a request that is an array of bulk strings
Req(tokens) == [type |-> "Array", array |-> tokens]

\* the requests the clients of the server send
ServerRequests ==
    {Req(<<CommandName.SET, TokA, TokOne>>),
     Req(<<CommandName.SET, TokA, TokX, TokenEX, TokOne>>),
     Req(<<TokGetLower, TokA>>),
     Req(<<CommandName.GET>>),
     Req(<<CommandName.GETRANGE, TokA, TokX, TokOne>>),
     Req(<<TokFOO, TokA>>)}

\* what readLoop sends to its connection when parseCommand fails: nothing,
\* the two statements that build and send the error reply are commented out
ParseErrorReply(err) == <<>>

\* handleConnection: `s.addPeerChannel <- peer`, received by the loop, which
\* logs the connection
AddPeer(p) ==
    /\ ~exited
    /\ peerPc[p] = "connect"
    /\ loopPc = "select"
    /\ peerPc' = [peerPc EXCEPT ![p] = "read"]
    /\ UNCHANGED <<cur, outbox, stalled, loopPc, loopMsg, peers, exited>>
    /\ UNCHANGED <<data, expiry, counters, now, last>>
    /\ UNCHANGED cvars

\* readLoop: ReadValue returns a request, one of the set R, parseCommand
\* parses it; on a parse error the loop continues with the next read, else
\* the worker goes on to send the command
ReadValueOf(p, R) ==
    /\ ~exited
    /\ peerPc[p] = "read"
    /\ cur[p].seq < MaxReqs
    /\ \E v \in R :
         LET r == parseCommandDispatch(v) IN
         /\ cur' = [cur EXCEPT ![p] = [seq |-> @.seq + 1, sent |-> @.sent, req |-> v,
                                       cmd |-> r.cmd, err |-> r.err]]
         /\ IF r.err # NoErr
            THEN /\ outbox' = [outbox EXCEPT ![p] = @ \o ParseErrorReply(r.err)]
                 /\ UNCHANGED peerPc
            ELSE /\ peerPc' = [peerPc EXCEPT ![p] = "send"]
                 /\ UNCHANGED outbox
    /\ UNCHANGED <<stalled, loopPc, loopMsg, peers, exited>>
    /\ UNCHANGED <<data, expiry, counters, now, last>>
    /\ UNCHANGED cvars

ReadValue(p) == ReadValueOf(p, ServerRequests)

\* readLoop: ReadValue returns io.EOF, the client has closed the connection
ReadEOF(p) ==
    /\ ~exited
    /\ peerPc[p] = "read"
    /\ peerPc' = [peerPc EXCEPT ![p] = "delete"]
    /\ UNCHANGED <<cur, outbox, stalled, loopPc, loopMsg, peers, exited>>
    /\ UNCHANGED <<data, expiry, counters, now, last>>
    /\ UNCHANGED cvars

\* readLoop: ReadValue returns another error; log.Fatal ends the process
ReadError(p) ==
    /\ ~exited
    /\ peerPc[p] = "read"
    /\ peerPc' = [peerPc EXCEPT ![p] = "fatal"]
    /\ exited' = TRUE
    /\ UNCHANGED <<cur, outbox, stalled, loopPc, loopMsg, peers>>
    /\ UNCHANGED <<data, expiry, counters, now, last>>
    /\ UNCHANGED cvars

\* readLoop: `p.messageChannel <- Message{...}`, received by the loop, which
\* calls handleMessage; handleMessage calls Execute and is then at the write
\* of the reply.  A panic in Execute ends the process.
\* Execute called by the goroutine of the connection, without the rendezvous
\* with the server loop
HandleMessage_OwnGoroutine(p) ==
    /\ ~exited
    /\ peerPc[p] = "send"
    /\ \E r \in Executions(cur[p].cmd, St, now) :
         /\ data' = r.st.data
         /\ expiry' = r.st.expiry
         /\ counters' = r.st.counters
         /\ exited' = r.panic
         /\ IF r.panic
            THEN UNCHANGED <<loopPc, loopMsg>>
            ELSE /\ loopPc' = "write"
                 /\ loopMsg' = [peer |-> p, seq |-> cur[p].seq, cmd |-> cur[p].cmd,
                                frame |-> Reply(r.result, r.err)]
    /\ peerPc' = [peerPc EXCEPT ![p] = "read"]
    /\ cur' = [cur EXCEPT ![p].sent = @ + 1]
    /\ UNCHANGED <<outbox, stalled, peers, now, last>>
    /\ UNCHANGED cvars

HandleMessage(p) ==
    /\ ~exited
    /\ peerPc[p] = "send"
    /\ loopPc = "select"
    /\ \E r \in Executions(cur[p].cmd, St, now) :
         /\ data' = r.st.data
         /\ expiry' = r.st.expiry
         /\ counters' = r.st.counters
         /\ exited' = r.panic
         /\ IF r.panic
            THEN UNCHANGED <<loopPc, loopMsg>>
            ELSE /\ loopPc' = "write"
                 /\ loopMsg' = [peer |-> p, seq |-> cur[p].seq, cmd |-> cur[p].cmd,
                                frame |-> Reply(r.result, r.err)]
    /\ peerPc' = [peerPc EXCEPT ![p] = "read"]
    /\ cur' = [cur EXCEPT ![p].sent = @ + 1]
    /\ UNCHANGED <<outbox, stalled, peers, now, last>>
    /\ UNCHANGED cvars

\* handleMessage that puts the reply in front of what the connection was
\* sent before
WriteReply_Prepend ==
    /\ ~exited
    /\ loopPc = "write"
    /\ loopMsg.peer \notin stalled
    /\ outbox' = [outbox EXCEPT ![loopMsg.peer] = <<loopMsg.frame>> \o @]
    /\ loopPc' = "select"
    /\ loopMsg' = NoMsg
    /\ UNCHANGED <<peerPc, cur, stalled, peers, exited>>
    /\ UNCHANGED <<data, expiry, counters, now, last>>
    /\ UNCHANGED cvars

\* handleMessage: the write of the reply to msg.peer.connect completes; when
\* the client has closed the connection the write may fail instead, which is
\* logged
WriteReply ==
    /\ ~exited
    /\ loopPc = "write"
    /\ loopMsg.peer \notin stalled
    /\ \E sent \in (IF peerPc[loopMsg.peer] \in {"delete", "done"}
                    THEN {TRUE, FALSE} ELSE {TRUE}) :
         outbox' = [outbox EXCEPT ![loopMsg.peer] =
                       IF sent THEN Append(@, loopMsg.frame) ELSE @]
    /\ loopPc' = "select"
    /\ loopMsg' = NoMsg
    /\ UNCHANGED <<peerPc, cur, stalled, peers, exited>>
    /\ UNCHANGED <<data, expiry, counters, now, last>>
    /\ UNCHANGED cvars

\* readLoop: `p.deleteChannel <- p`, received by the loop, which deletes the
\* peer from s.peers; readLoop and handleConnection return
DeletePeer(p) ==
    /\ ~exited
    /\ peerPc[p] = "delete"
    /\ loopPc = "select"
    /\ peers' = peers \ {p}
    /\ peerPc' = [peerPc EXCEPT ![p] = "done"]
    /\ UNCHANGED <<cur, outbox, stalled, loopPc, loopMsg, exited>>
    /\ UNCHANGED <<data, expiry, counters, now, last>>
    /\ UNCHANGED cvars

\* the client of p stops reading: the socket's send buffer fills and writes
\* to p.connect block
Stall(p) ==
    /\ ~exited
    /\ p \notin stalled
    /\ peerPc[p] \notin {"delete", "done"}
    /\ stalled' = stalled \cup {p}
    /\ UNCHANGED <<peerPc, cur, outbox, loopPc, loopMsg, peers, exited>>
    /\ UNCHANGED <<data, expiry, counters, now, last>>
    /\ UNCHANGED cvars

\* the client of p reads again
Resume(p) ==
    /\ ~exited
    /\ p \in stalled
    /\ stalled' = stalled \ {p}
    /\ UNCHANGED <<peerPc, cur, outbox, loopPc, loopMsg, peers, exited>>
    /\ UNCHANGED <<data, expiry, counters, now, last>>
    /\ UNCHANGED cvars

\* the clock advances while the server runs
ServerTick ==
    /\ ~exited
    /\ now < MaxTime
    /\ now' = now + 1
    /\ UNCHANGED <<data, expiry, counters, last>>
    /\ UNCHANGED cvars
    /\ UNCHANGED svars

NextServer ==
    \/ \E p \in Peers :
        \/ AddPeer(p)
        \/ ReadValue(p)
        \/ ReadEOF(p)
        \/ ReadError(p)
        \/ HandleMessage(p)
        \/ DeletePeer(p)
        \/ Stall(p)
        \/ Resume(p)
    \/ WriteReply
    \/ ServerTick

SpecServer == Init /\ [][NextServer]_vars

\* ---- one connection sending requests of every reply shape -----------------
\* tokens "*", "*1", "-1", "0"
TokStar == <<42>>
TokStarOne == <<42, 49>>
TokMinusOne == <<45, 49>>
TokZero == <<48>>

\* the requests the client of connection 1 sends
WireRequests ==
    {Req(<<CommandName.SET, TokA, TokOne>>),
     Req(<<CommandName.SET, TokA, TokStarOne>>),
     Req(<<CommandName.GET, TokA>>),
     Req(<<CommandName.GET>>),
     Req(<<CommandName.INCR, TokA>>),
     Req(<<CommandName.DECR, TokA>>),
     Req(<<CommandName.DEL, TokA>>),
     Req(<<CommandName.PING>>),
     Req(<<CommandName.PING, TokStarOne>>),
     Req(<<CommandName.MGET, TokA>>),
     Req(<<CommandName.KEYS, TokStar>>),
     Req(<<CommandName.HELLO>>),
     Req(<<CommandName.GETRANGE, TokA, TokZero, TokMinusOne>>),
     Req(<<CommandName.SETRANGE, TokA, TokOne, TokX>>),
     Req(<<CommandName.SETRANGE, TokA, TokMinusOne, TokX>>)}

NextWire ==
    \/ AddPeer(1)
    \/ ReadValueOf(1, WireRequests)
    \/ HandleMessage(1)
    \/ WriteReply

SpecWire == Init /\ [][NextWire]_vars

\* ---- parseCommand applied to one request -----------------------------------
\* longest argument list of a request
MaxArgs == 4

\* first tokens: the twenty command names, "get", "Set", "FOO" and ""
NameTokens ==
    {CommandName[n] : n \in DOMAIN CommandName}
        \cup {TokGetLower, <<83, 101, 116>>, TokFOO, <<>>}

\* argument lists over "a" and "1"
ArgLists == UNION {[1..n -> {TokA, TokOne}] : n \in 0..MaxArgs}

\* the decoded values handed to parseCommand: arrays of tokens, the empty
\* array and a value that is no array
ParseRequests ==
    {Req(<<name>> \o args) : name \in NameTokens, args \in ArgLists}
        \cup {Req(<<>>), [type |-> "BulkString", array |-> <<>>]}

\* the worker of connection 1 has read the value v and is about to parse it
InitParse ==
    /\ InitStore
    /\ peerPc = [p \in Peers |-> "read"]
    /\ \E v \in ParseRequests :
         cur = [p \in Peers |-> IF p = 1 THEN [NoCur EXCEPT !.req = v] ELSE NoCur]
    /\ outbox = [p \in Peers |-> <<>>]
    /\ stalled = {}
    /\ loopPc = "select"
    /\ loopMsg = NoMsg
    /\ peers = {}
    /\ exited = FALSE

\* readLoop: `cmd, err := p.parseCommand(v)`
ParseStep ==
    /\ cur[1].seq = 0
    /\ LET r == parseCommand(cur[1].req) IN
       cur' = [cur EXCEPT ![1] = [seq |-> 1, sent |-> 0, req |-> @.req,
                                  cmd |-> r.cmd, err |-> r.err]]
    /\ UNCHANGED <<peerPc, outbox, stalled, loopPc, loopMsg, peers, exited>>
    /\ UNCHANGED <<data, expiry, counters, now, last>>
    /\ UNCHANGED cvars

NextParse == ParseStep

SpecParse == InitParse /\ [][NextParse]_vars

\* readLoop: `cmd, err := p.parseCommand(v)` with the documented switch, which
\* calls the parse function of the command the request names; on an error the
\* worker reads on, else it goes on to send the command
DispatchStep ==
    /\ cur[1].seq = 0
    /\ LET r == parseCommandDispatch(cur[1].req) IN
       /\ cur' = [cur EXCEPT ![1] = [seq |-> 1, sent |-> 0, req |-> @.req,
                                     cmd |-> r.cmd, err |-> r.err]]
       /\ peerPc' = [peerPc EXCEPT ![1] = IF r.err # NoErr THEN "read" ELSE "send"]
    /\ UNCHANGED <<outbox, stalled, loopPc, loopMsg, peers, exited>>
    /\ UNCHANGED <<data, expiry, counters, now, last>>
    /\ UNCHANGED cvars

\* one request is parsed by its parse function and, when that gives a
\* command, the command is executed and answered
NextArity ==
    \/ DispatchStep
    \/ HandleMessage(1)
    \/ WriteReply

SpecArity == InitParse /\ [][NextArity]_vars

\* ---- KEYS user:* over stores of prefixed keys -------------------------------
\* "user:" and the pattern "user:*"
PrefixUser == <<117, 115, 101, 114, 58>>
PatternUser == PrefixUser \o <<42>>

\* the keys the stores hold: "user:", "user:*", "user:user:", "xuser:", "user"
UserKeys ==
    {PrefixUser, PrefixUser \o <<42>>, PrefixUser \o PrefixUser,
     <<120>> \o PrefixUser, <<117, 115, 101, 114>>}

\* the stores SET and SET ... EX build over those keys at instant 0: any of
\* the keys, each without a TTL or with one of 0..MaxDur
InitKeys ==
    /\ NewServer
    /\ \E D \in SUBSET UserKeys :
         /\ data = [k \in D |-> <<49>>]
         /\ \E E \in SUBSET D : expiry \in [E -> 0..MaxDur]
    /\ counters = NewStorage.counters
    /\ now = 0
    /\ last = [op |-> "Init", expired |-> {}, err |-> NoErr]
    /\ pc = [p \in Procs |-> "idle"]
    /\ call = [p \in Procs |-> NoCall]
    /\ loc = [p \in Procs |-> NoLoc]
    /\ readers = {}
    /\ writer = 0
    /\ returned = [p \in Procs |-> <<>>]
    /\ fatal = FALSE

NextKeys ==
    \/ KeysCommandOf({PatternUser})
    \/ Tick

SpecKeys == InitKeys /\ [][NextKeys]_vars

\* ---- matchPattern applied to one key and one pattern -----------------------
\* longest key and longest pattern
MaxKeyLen == 4
MaxPatLen == 3

\* keys over "a" and "b", patterns over "a", "b" and "*"
MatchKeys == UNION {[1..n -> {97, 98}] : n \in 0..MaxKeyLen}
MatchPatterns == UNION {[1..n -> {97, 98, 42}] : n \in 0..MaxPatLen}

\* Keys is about to test a key against a pattern
InitMatch ==
    /\ NewServer
    /\ data = NewStorage.data
    /\ expiry = NewStorage.expiry
    /\ counters = NewStorage.counters
    /\ now = 0
    /\ \E key \in MatchKeys, pattern \in MatchPatterns :
         last = [op |-> "Init", key |-> key, pattern |-> pattern, ok |-> FALSE,
                 expired |-> {}, err |-> NoErr]
    /\ pc = [p \in Procs |-> "idle"]
    /\ call = [p \in Procs |-> NoCall]
    /\ loc = [p \in Procs |-> NoLoc]
    /\ readers = {}
    /\ writer = 0
    /\ returned = [p \in Procs |-> <<>>]
    /\ fatal = FALSE

\* Keys: `if matchPattern(key, pattern)`
MatchStep ==
    /\ last.op = "Init"
    /\ last' = [last EXCEPT !.op = "matchPattern",
                            !.ok = matchPattern(last.key, last.pattern)]
    /\ UNCHANGED <<data, expiry, counters, now>>
    /\ UNCHANGED cvars
    /\ UNCHANGED svars

NextMatch == MatchStep

SpecMatch == InitMatch /\ [][NextMatch]_vars

\* ---- GetRange and SetRange applied to one stored value ---------------------
\* longest stored value, largest index and offset, longest value written
MaxValLen == 3
MaxIdx == 4
MaxWriteLen == 2

\* stored values over "a" and "b", values written over "x" and "y"
RangeValues == UNION {[1..n -> {97, 98}] : n \in 0..MaxValLen}
WriteValues == UNION {[1..n -> {120, 121}] : n \in 0..MaxWriteLen}

\* the stores SET and SET ... EX leave at instant 1: key "a" not stored, or
\* stored with no TTL, with one that has passed or with one that has not
InitRange ==
    /\ NewServer
    /\ \/ data = EmptyMap /\ expiry = EmptyMap
       \/ \E v \in RangeValues :
              /\ data = [k \in EditKeys |-> v]
              /\ \/ expiry = EmptyMap
                 \/ \E e \in 0..1 : expiry = [k \in EditKeys |-> e]
    /\ counters = NewStorage.counters
    /\ now = 1
    /\ last = [op |-> "Init", expired |-> {}, err |-> NoErr]
    /\ pc = [p \in Procs |-> "idle"]
    /\ call = [p \in Procs |-> NoCall]
    /\ loc = [p \in Procs |-> NoLoc]
    /\ readers = {}
    /\ writer = 0
    /\ returned = [p \in Procs |-> <<>>]
    /\ fatal = FALSE

\* GetRangeCommand.Execute for every pair of indices
RangeGetStep ==
    /\ last.op = "Init"
    /\ \E key \in EditKeys, start \in (-MaxIdx)..MaxIdx, end \in (-MaxIdx)..MaxIdx :
           Commit(St, [op |-> "GETRANGE", key |-> key, expired |-> Was({key}),
                       start |-> start, end |-> end,
                       val |-> GetRange(St, now, key, start, end),
                       err |-> NoErr])

\* SetRangeCommand.Execute for every offset from 0 on; the record keeps what
\* the key held before
RangeSetStep ==
    /\ last.op = "Init"
    /\ \E key \in EditKeys, offset \in 0..MaxIdx, value \in WriteValues :
           LET r == SetRange(St, key, offset, value) IN
           Commit(r.st, [op |-> "SETRANGE", key |-> key, expired |-> Was({key}),
                         offset |-> offset, val |-> value, n |-> r.n,
                         old |-> IF Has(data, key) THEN Some(data[key]) ELSE Nil,
                         err |-> NoErr])

NextRange ==
    \/ RangeGetStep
    \/ RangeSetStep

SpecRange == InitRange /\ [][NextRange]_vars

\* ---- connections sharing the server loop --------------------------------------
\* INCR a, GET a, and a GET that does not parse
LoopRequests ==
    {Req(<<CommandName.INCR, TokA>>),
     Req(<<CommandName.GET, TokA>>),
     Req(<<CommandName.GET>>)}

\* connections 1 and 2 send requests, the clients of the others connect and
\* close; the client of connection 1 may stop reading
NextLoop ==
    \/ \E p \in Peers :
        \/ AddPeer(p)
        \/ p <= 2 /\ ReadValueOf(p, LoopRequests)
        \/ ReadEOF(p)
        \/ HandleMessage(p)
        \/ DeletePeer(p)
        \/ p = 1 /\ Stall(p)
        \/ Resume(p)
    \/ WriteReply

SpecLoop == Init /\ [][NextLoop]_vars

\* ---- one connection sending SET with and without an EX clause ---------------
\* a negative number of seconds whose product with time.Second is out of range
TokFarBelow == FormatInt(-(2 ^ (IntBits - 2)) - 1)

SetRequests ==
    {Req(<<CommandName.SET, TokA, TokOne>>),
     Req(<<CommandName.SET, TokA, TokX, TokenEX, TokOne>>),
     Req(<<CommandName.SET, TokA, TokOne, TokenEX, TokZero>>),
     Req(<<CommandName.SET, TokA, TokOne, TokenEX, TokMinusOne>>),
     Req(<<CommandName.SET, TokA, TokOne, TokenEX, TokFarBelow>>),
     Req(<<CommandName.SET, TokA, TokOne, TokenEX>>),
     Req(<<CommandName.GET, TokA>>)}

NextSetEx ==
    \/ AddPeer(1)
    \/ ReadValueOf(1, SetRequests)
    \/ HandleMessage(1)
    \/ WriteReply
    \/ ServerTick

SpecSetEx == Init /\ [][NextSetEx]_vars

\* ---- the commands that only read -------------------------------------------
\* PingCommand.Execute, HelloCommand.Execute and ClientCommand.Execute
ConnectionCommand ==
    \E op \in {"PING", "HELLO", "CLIENT"} :
        \E o \in Executions([op |-> op, val |-> <<>>], St, now) :
            Commit(o.st, [op |-> op, err |-> o.err])

\* a store in which one key was created by INCR, so that it has a counters
\* entry
InitRead ==
    /\ NewServer
    /\ \E key \in EditKeys :
           LET S == Incr(NewStorage, key).st IN
           data = S.data /\ expiry = S.expiry /\ counters = S.counters
    /\ now = 0
    /\ last = [op |-> "Init", expired |-> {}, err |-> NoErr]
    /\ pc = [p \in Procs |-> "idle"]
    /\ call = [p \in Procs |-> NoCall]
    /\ loc = [p \in Procs |-> NoLoc]
    /\ readers = {}
    /\ writer = 0
    /\ returned = [p \in Procs |-> <<>>]
    /\ fatal = FALSE

\* the commands that only read, on stores that SET builds from there
NextRead ==
    \/ SetCommand(KeySet)
    \/ ExistsCommand(KeySet)
    \/ StrlenCommand(KeySet)
    \/ GetRangeCommand(KeySet)
    \/ MGetCommand(KeySet)
    \/ KeysCommand
    \/ ConnectionCommand
    \/ Tick

SpecRead == InitRead /\ [][NextRead]_vars

\* ---- properties ------------------------------------------------------------
ReadOps == {"GET", "EXISTS", "MGET", "KEYS", "STRLEN", "GETRANGE"}
NumericOps == {"INCR", "DECR", "INCRBY", "DECRBY"}

\* C1: TTL expiry.  A key that carries an expiration instant exists exactly
\* as long as the clock has not passed that instant; right after
\* SET key val EX d the key exists at every instant up to now + d and at none
\* after it; a GET of a key whose instant has passed returns not-found, and
\* Exists is false after that GET.
C1_TTLExpiry ==
    /\ \A k \in DOMAIN expiry : Exists(St, now, k) <=> (now <= expiry[k])
    /\ (last.op = "SET" /\ last.expiry > 0) =>
           \A t \in now..(now + MaxDur + 1) :
               Exists(St, t, last.key) <=> (t <= now + last.expiry)
    /\ (last.op = "GET" /\ last.key \in last.expired) =>
           (~last.ok /\ last.val = Nil /\ ~Exists(St, now, last.key))

\* a GET has just purged a key whose expiration instant had passed
C1_Witness ==
    /\ last.op = "GET"
    /\ last.key \in last.expired
    /\ ~Exists(St, now, last.key)

\* C2: no read path reports a key whose expiration instant has passed: GET
\* returns not-found, EXISTS does not count it, MGET leaves its slot nil,
\* KEYS omits it, STRLEN returns 0 and GETRANGE the empty sequence.
C2_ReadsHideExpired ==
    /\ (last.op = "GET" /\ last.key \in last.expired) =>
           (~last.ok /\ last.val = Nil)
    /\ last.op = "EXISTS" =>
           last.count <= Cardinality({i \in 1..Len(last.keys) :
                                         last.keys[i] \notin last.expired})
    /\ last.op = "MGET" =>
           \A i \in 1..Len(last.keys) :
               last.keys[i] \in last.expired => last.vals[i] = Nil
    /\ last.op = "KEYS" => Range(last.keys) \cap last.expired = {}
    /\ (last.op = "STRLEN" /\ last.key \in last.expired) => last.n = 0
    /\ (last.op = "GETRANGE" /\ last.key \in last.expired) => last.val = <<>>

\* an MGET has read an expired key together with a live one
C2_Witness ==
    /\ last.op = "MGET"
    /\ \E i, j \in 1..Len(last.keys) :
           last.keys[i] \in last.expired /\ last.vals[j] # Nil

\* C3: a command that writes a key whose expiration instant has passed
\* treats the key as absent: the numeric commands start from 0, APPEND
\* stores the suffix alone, SETRANGE starts from an empty buffer, GETSET
\* reports that the key did not exist and returns no old value.
C3_ExpiredIsAbsentToWrites ==
    /\ (last.op \in {"INCR", "INCRBY"} /\ last.key \in last.expired) =>
           (last.err = NoErr /\ last.n = last.num)
    /\ (last.op \in {"DECR", "DECRBY"} /\ last.key \in last.expired) =>
           (last.err = NoErr /\ last.n = -last.num)
    /\ (last.op = "APPEND" /\ last.key \in last.expired) =>
           (last.n = Len(last.val) /\ data[last.key] = last.val)
    /\ (last.op = "SETRANGE" /\ last.key \in last.expired) =>
           data[last.key] = Zeros(last.offset) \o last.val
    /\ (last.op = "GETSET" /\ last.key \in last.expired) =>
           (~last.exists /\ last.oldVal = Nil)

\* the calls that have returned, as <<goroutine, position>>
Done == {c \in Procs \X (1..MaxCalls) : c[2] <= Len(returned[c[1]])}
RetVal(c) == returned[c[1]][c[2]].ret.n

\* C4: increment atomicity.  In every interleaving of Incr calls on an
\* absent key no call fails, the calls that have returned have returned
\* exactly the values 1..N, each once, every goroutine sees its own calls
\* return increasing values, and when no call is in progress the stored
\* value is the decimal form of N.
C4_IncrAtomic ==
    /\ \A c \in Done : returned[c[1]][c[2]].ret.ok
    /\ {RetVal(c) : c \in Done} = 1..Cardinality(Done)
    /\ \A c, d \in Done : c # d => RetVal(c) # RetVal(d)
    /\ \A c, d \in Done : (c[1] = d[1] /\ c[2] < d[2]) => RetVal(c) < RetVal(d)
    /\ ((\A p \in Procs : pc[p] = "idle") /\ Done # {}) =>
           \A k \in EditKeys :
               /\ data[k] = FormatInt(Cardinality(Done))
               /\ counters[k] = Cardinality(Done)

\* every call has returned, and one goroutine made the first and the last
C4_Witness ==
    /\ \A p \in Procs : pc[p] = "idle"
    /\ Cardinality(Done) = NumProcs * MaxCalls
    /\ \E p \in Procs :
           /\ returned[p][1].ret.n = 1
           /\ returned[p][MaxCalls].ret.n = NumProcs * MaxCalls

\* the statements that write a map
WritePcs == {"IncrByWrite", "SetWithExpiryBody", "GetPurgeData", "GetPurgeExpiry"}

\* C5: storage calls are safe to make concurrently: a goroutine that is at
\* a statement writing a map holds s.mu exclusively, and the runtime never
\* aborts the process for a concurrent map access.
C5_WritesHoldExclusiveLock ==
    /\ \A p \in Procs : pc[p] \in WritePcs => writer = p
    /\ ~fatal

\* C6: when DEL has removed every key it lists, or GET has purged a key
\* whose expiration instant had passed, those keys are in none of the
\* three maps.
C6_RemovalPurgesAllMaps ==
    /\ (last.op = "DEL" /\ last.count = Cardinality(Range(last.keys))) =>
           \A k \in Range(last.keys) :
               ~Has(data, k) /\ ~Has(expiry, k) /\ ~Has(counters, k)
    /\ (last.op = "GET" /\ last.key \in last.expired) =>
           /\ ~Has(data, last.key)
           /\ ~Has(expiry, last.key)
           /\ ~Has(counters, last.key)

\* C7: after a read command has touched a key whose expiration instant had
\* passed, the key is held in none of the maps.
C7_ReadsReclaimExpired ==
    last.op \in ReadOps =>
        \A k \in last.expired :
            ~Has(data, k) /\ ~Has(expiry, k) /\ ~Has(counters, k)

\* the keys the step's command writes unconditionally and without a TTL
PlainWritten(l) ==
    IF l.op = "SET" /\ l.expiry = 0 THEN {l.key}
    ELSE IF l.op = "GETSET" THEN {l.key}
    ELSE IF l.op = "MSET" THEN DOMAIN l.pairs
    ELSE {}

\* the step's command deletes k, flushes the store or sets k with a TTL
Unsettles(l, k) ==
    \/ l.op = "DEL" /\ k \in Range(l.keys)
    \/ l.op = "FLUSHALL"
    \/ l.op = "SET" /\ l.key = k /\ l.expiry > 0

\* C8: after SET without EX, GETSET or MSET has written key k, k has no
\* expiry entry and GET and EXISTS report it at every clock value; and a key
\* that is stored without an expiry entry stays so through every step that
\* does not delete it, flush the store or set it with a TTL.
C8_PlainWriteClearsTTL ==
    [][/\ \A k \in PlainWritten(last') :
            /\ ~Has(expiry', k)
            /\ \A t \in 0..(MaxTime + MaxDur + 1) :
                   Exists(St', t, k) /\ Get(St', t, k).ok
       /\ \A k \in KeySet :
            (Has(data, k) /\ ~Has(expiry, k) /\ ~Unsettles(last', k)) =>
                (Has(data', k) /\ ~Has(expiry', k))]_vars

\* a GETSET has stored a key whose TTL had elapsed, and the key is visible
C8_Witness ==
    /\ last.op = "GETSET"
    /\ last.key \in last.expired
    /\ Exists(St, now, last.key)
    /\ now = MaxTime

\* C9: a numeric command on a key whose stored value does not parse as an
\* integer returns the parse error and leaves the three maps as they were.
C9_NumericErrorNoChange ==
    [][\A k \in KeySet :
          (/\ last'.op \in NumericOps
           /\ last'.key = k
           /\ Has(data, k)
           /\ ~ParseInt(data[k]).ok) =>
              (last'.err = ErrParseInt /\ UNCHANGED <<data, expiry, counters>>)]_vars

\* a DECRBY has failed on a value that is not an integer
C9_Witness ==
    /\ last.op = "DECRBY"
    /\ last.err = ErrParseInt
    /\ Has(data, last.key)
    /\ ~ParseInt(data[last.key]).ok

\* C10: a command whose execution reports an error leaves the store with
\* exactly the keys and values it held before the command.
C10_ErrorsAllOrNothing ==
    [][last'.err # NoErr => data' = data]_vars

\* the worker of p hands its command to the loop in this step
Handled(p) == peerPc[p] = "send" /\ peerPc'[p] = "read"

\* C11: for a GET of a key that is absent or whose expiration instant has
\* passed, the reply handleMessage prepares is the null frame, not an error
\* frame, and that frame is what the write appends to the connection.
C11_GetAbsentRepliesNull ==
    [][/\ \A p \in Peers :
            (/\ Handled(p)
             /\ cur[p].cmd.op = "GET"
             /\ ~Exists(St, now, cur[p].cmd.key)) =>
                (loopMsg'.peer = p /\ loopMsg'.frame.kind = "null")
       /\ \A p \in Peers :
            outbox'[p] # outbox[p] /\ loopPc = "write" =>
                outbox'[p] = Append(outbox[p], loopMsg.frame)]_vars

\* the command a command name stands for
OpOf(name) ==
    CASE name = CommandName.SET -> "SET" [] name = CommandName.GET -> "GET"
      [] name = CommandName.DEL -> "DEL" [] name = CommandName.EXISTS -> "EXISTS"
      [] name = CommandName.APPEND -> "APPEND" [] name = CommandName.STRLEN -> "STRLEN"
      [] name = CommandName.GETRANGE -> "GETRANGE"
      [] name = CommandName.SETRANGE -> "SETRANGE"
      [] name = CommandName.INCR -> "INCR" [] name = CommandName.DECR -> "DECR"
      [] name = CommandName.INCRBY -> "INCRBY" [] name = CommandName.DECRBY -> "DECRBY"
      [] name = CommandName.MGET -> "MGET" [] name = CommandName.MSET -> "MSET"
      [] name = CommandName.GETSET -> "GETSET" [] name = CommandName.KEYS -> "KEYS"
      [] name = CommandName.FLUSHALL -> "FLUSHALL" [] name = CommandName.HELLO -> "HELLO"
      [] name = CommandName.CLIENT -> "CLIENT" [] name = CommandName.PING -> "PING"
      [] OTHER -> "none"

\* the arity rule of command op for a request of n tokens
ArityOK(op, n) ==
    CASE op \in {"GET", "STRLEN", "INCR", "DECR", "KEYS"} -> n = 2
      [] op \in {"APPEND", "GETSET", "INCRBY", "DECRBY"} -> n = 3
      [] op \in {"GETRANGE", "SETRANGE"} -> n = 4
      [] op = "FLUSHALL" -> n = 1
      [] op \in {"DEL", "EXISTS", "MGET"} -> n >= 2
      [] op = "SET" -> n >= 3
      [] op = "MSET" -> n >= 3 /\ n % 2 = 1
      [] op \in {"HELLO", "CLIENT", "PING"} -> TRUE
      [] OTHER -> FALSE

UnknownCommandErrors == {"unknown command", "unknown commands"}

\* C12: a request whose first token is, in any letter case, a supported
\* command name and whose length satisfies that command's arity rule parses
\* into that command; the unknown-command error is returned only when the
\* first token is no supported name.
C12_SupportedCommandsParse ==
    \A p \in Peers :
        (cur[p].seq > 0 /\ cur[p].req.type = "Array" /\ Len(cur[p].req.array) > 0) =>
            LET arr == cur[p].req.array
                op  == OpOf(ToUpper(arr[1]))
            IN  /\ (op # "none" /\ ArityOK(op, Len(arr))) =>
                       (cur[p].err = NoErr /\ cur[p].cmd.op = op)
                /\ cur[p].err \in UnknownCommandErrors => op = "none"

\* the worker of p reads and parses one more request in this step
ReadsRequest(p) == cur'[p].seq = cur[p].seq + 1

\* C13: when a request fails parsing, that step sends exactly one error
\* frame, carrying the parse error, to the connection the request came
\* from, leaves the worker reading that connection and leaves the three maps
\* as they were.
C13_ParseErrorsAreReported ==
    [][\A p \in Peers :
          (ReadsRequest(p) /\ cur'[p].err # NoErr) =>
              /\ outbox'[p] = Append(outbox[p], [kind |-> "error", bytes |-> <<>>,
                                                 msg |-> cur'[p].err])
              /\ peerPc'[p] = "read"
              /\ UNCHANGED <<data, expiry, counters>>]_vars

\* C14: a step in which the read of one connection fails, by the client
\* closing it or by any other read error, ends the reading of that
\* connection only: the process has not exited, the server loop and the
\* workers of the other connections are where they were, and the three maps
\* are as they were.
C14_TransportErrorIsLocal ==
    [][\A p \in Peers :
          (peerPc[p] = "read" /\ peerPc'[p] \in {"delete", "fatal"}) =>
              /\ ~exited'
              /\ loopPc' = loopPc
              /\ \A q \in Peers \ {p} : peerPc'[q] = peerPc[q]
              /\ UNCHANGED <<data, expiry, counters>>]_vars

\* C15: no command waits for the network I/O of another connection: the
\* server loop is never blocked in the write of a reply to a connection
\* whose socket accepts no write while the worker of another connection is
\* offering a parsed command on the message channel.
C15_NoWaitOnOtherConnectionsIO ==
    ~(/\ loopPc = "write"
      /\ loopMsg.peer \in stalled
      /\ \E q \in Peers \ {loopMsg.peer} : peerPc[q] = "send")

\* the loop has executed a command of p and has not yet written its reply
Pending(p) == loopPc = "write" /\ loopMsg.peer = p

\* C16: every command a worker has placed on the message channel runs to
\* completion.  For a connection the client has not closed, each command
\* placed has been executed once and has exactly one frame, written or being
\* written, and no other frame is written; and the process never ends while
\* the reply to a command it has taken is still to be written.
C16_PipelineCompletes ==
    \A p \in Peers :
        /\ Len(outbox[p]) <= cur[p].sent
        /\ peerPc[p] \notin {"delete", "done"} =>
               Len(outbox[p]) + (IF Pending(p) THEN 1 ELSE 0) = cur[p].sent
        /\ exited => ~Pending(p)

\* C17: range round trip.  Right after SETRANGE key offset v, whatever the
\* key held before (nothing, a value, a value with a TTL), GETRANGE key
\* offset offset+len(v)-1 at the same instant returns exactly v.
C17_RangeRoundTrip ==
    last.op = "SETRANGE" =>
        GetRange(St, now, last.key, last.offset,
                 last.offset + Len(last.val) - 1) = last.val

\* s begins with prefix
HasPrefix(s, prefix) ==
    Len(s) >= Len(prefix) /\ SubSeq(s, 1, Len(prefix)) = prefix

\* C18: KEYS user:* returns exactly the stored keys that begin with "user:"
\* and whose expiration instant, if they have one, has not passed: none is
\* left out, none is added and none is listed twice.
C18_KeysUserPrefix ==
    (last.op = "KEYS" /\ last.pattern = PatternUser) =>
        /\ Range(last.keys) =
               {k \in DOMAIN data :
                   /\ HasPrefix(k, PrefixUser)
                   /\ ~(Has(expiry, k) /\ now > expiry[k])}
        /\ Len(last.keys) = Cardinality(Range(last.keys))

\* KEYS user:* has listed the key that repeats the prefix and the key that
\* holds a '*', and has left out an expired key and keys without the prefix
C18_Witness ==
    /\ last.op = "KEYS"
    /\ last.pattern = PatternUser
    /\ DOMAIN data = UserKeys
    /\ Range(last.keys) = {PrefixUser \o PrefixUser, PrefixUser \o <<42>>}

\* key matches the anchored glob pattern, in which '*' stands for any byte
\* sequence, the empty one included, and every other byte for itself
RECURSIVE Glob(_, _)
Glob(key, pattern) ==
    IF pattern = <<>> THEN key = <<>>
    ELSE IF pattern[1] = 42
         THEN \E i \in 0..Len(key) :
                  Glob(SubSeq(key, i + 1, Len(key)), Tail(pattern))
         ELSE /\ key # <<>>
              /\ key[1] = pattern[1]
              /\ Glob(Tail(key), Tail(pattern))

\* C19: matchPattern(key, pattern) is true exactly when key matches the
\* anchored glob pattern: the leading literal segment is a prefix of the
\* key, the trailing one a suffix unless the pattern ends in '*', and the
\* inner segments occur in order in between.
C19_MatchIsAnchoredGlob ==
    last.op = "matchPattern" => (last.ok <=> Glob(last.key, last.pattern))

\* C20: right after DEL, whatever value, TTL or counters entry a listed key
\* had, EXISTS reports the key absent at every instant and an INCR of it
\* returns 1 and leaves what an INCR of a key of the empty store leaves:
\* the value "1", no expiry entry and the counters entry 1.
C20_DeleteClearsKey ==
    last.op = "DEL" =>
        \A k \in Range(last.keys) :
            /\ \A t \in 0..(MaxTime + MaxDur + 1) : ~Exists(St, t, k)
            /\ LET r == Incr(St, k)
                   fresh == Incr(NewStorage, k)
               IN  /\ ~r.err
                   /\ r.n = 1
                   /\ r.st.data[k] = fresh.st.data[k]
                   /\ Has(r.st.expiry, k) = Has(fresh.st.expiry, k)
                   /\ r.st.counters[k] = fresh.st.counters[k]

\* a DEL has removed a key whose TTL had elapsed, and the key is in no map
C20_Witness ==
    /\ last.op = "DEL"
    /\ last.count = 1
    /\ last.expired # {}
    /\ \A k \in Range(last.keys) : ~Has(data, k) /\ ~Has(counters, k)

\* the slots an MGet call has returned
Slots(c) == returned[c[1]][c[2]].ret.val

\* C21: MSet is one atomic batch.  With every batch giving all its keys one
\* value, in every interleaving of MSet and MGet calls an MGet of the keys of
\* the batches returns the same thing in every slot (nothing, or the value of
\* one batch), and so does an MGet that is still filling its slots: no MGet
\* sees some pairs of a batch applied and others not.
C21_MSetBatchAtomic ==
    /\ \A c \in Done :
           returned[c[1]][c[2]].op = "MGet" =>
               \A i, j \in 1..Len(Slots(c)) : Slots(c)[i] = Slots(c)[j]
    /\ \A p \in Procs :
           pc[p] \in {"MGetRead", "unlock"} /\ call[p].op = "MGet" =>
               \A i, j \in 1..Len(loc[p].ret.val) :
                   loc[p].ret.val[i] = loc[p].ret.val[j]

\* one goroutine's MGet has returned the value of one batch in both slots
\* and, after another batch, its next MGet the value of that batch
C21_Witness ==
    \E p \in Procs :
        /\ Len(returned[p]) = 2
        /\ returned[p][1].op = "MGet"
        /\ returned[p][2].op = "MGet"
        /\ returned[p][1].ret.val = <<Some(<<49>>), Some(<<49>>)>>
        /\ returned[p][2].ret.val = <<Some(<<120>>), Some(<<120>>)>>

\* C22: MGET returns one slot per key it lists, in the order of the list,
\* and slot i holds what GET of key i returns in that state: the stored value
\* when the key is present and its expiration instant has not passed, and
\* nothing otherwise.
C22_MGetSlotsMatchGet ==
    last.op = "MGET" =>
        /\ Len(last.vals) = Len(last.keys)
        /\ \A i \in 1..Len(last.keys) :
               LET k == last.keys[i] IN
               /\ last.vals[i] = Get(St, now, k).val
               /\ last.vals[i] =
                      IF Has(data, k) /\ ~(Has(expiry, k) /\ now > expiry[k])
                      THEN Some(data[k]) ELSE Nil

\* an MGET of two keys has returned the value of the first and nothing for
\* the second, which is not stored
C22_Witness ==
    /\ last.op = "MGET"
    /\ Len(last.keys) = 2
    /\ last.vals = <<Some(<<120>>), Nil>>
    /\ ~Has(data, last.keys[2])

\* the commands whose result is an array or a map
PreFramedOps == {"MGET", "KEYS", "HELLO"}

\* C23: the frame of a successful result is chosen by the command that
\* produced it, not by the bytes of the result: the array of MGET and KEYS
\* and the map of HELLO are sent as they are, every other result is wrapped
\* in a length-prefixed frame whatever its first byte is.
C23_FramingByShape ==
    [][\A p \in Peers :
          (Handled(p) /\ ~exited' /\ loopMsg'.frame.kind # "error") =>
              loopMsg'.frame.kind =
                  (IF cur[p].cmd.op \in PreFramedOps THEN "raw" ELSE "bulk")]_vars

\* C24: DEL returns the number of distinct keys of its list that were in the
\* value map before the command, whether or not their expiration instant had
\* passed, and afterwards none of the listed keys is in the value map.
C24_DelCountsPresent ==
    [][last'.op = "DEL" =>
          /\ last'.count = Cardinality({k \in Range(last'.keys) : Has(data, k)})
          /\ \A k \in Range(last'.keys) : ~Has(data', k)]_vars

\* a DEL that lists one key twice has counted it once, the key's expiration
\* instant having passed
C24_Witness ==
    /\ last.op = "DEL"
    /\ Len(last.keys) = 2
    /\ last.keys[1] = last.keys[2]
    /\ last.keys[1] \in last.expired
    /\ last.count = 1

\* the error a parse function returns for a request of the wrong length
ArityError(op) == "wrong number of arguments for '" \o op \o "' command"

\* C25: the parse function of every command enforces the command's arity
\* rule.  A request that names a command and breaks its rule gets the parse
\* error that names the command, yields no command, is never executed and
\* leaves the three maps as they were; a request that keeps the rule never
\* gets that error.
C25_ArityEnforced ==
    (cur[1].seq > 0 /\ cur[1].req.type = "Array" /\ Len(cur[1].req.array) > 0) =>
        LET arr == cur[1].req.array
            op  == OpOf(ToUpper(arr[1]))
        IN  op # "none" =>
                IF ArityOK(op, Len(arr))
                THEN cur[1].err # ArityError(op)
                ELSE /\ cur[1].err = ArityError(op)
                     /\ cur[1].cmd = NoCmd
                     /\ cur[1].sent = 0
                     /\ peerPc[1] = "read"
                     /\ loopPc = "select"
                     /\ St = NewStorage

\* an MSET request of four tokens, a key without its value, has been rejected
C25_Witness ==
    /\ cur[1].seq = 1
    /\ Len(cur[1].req.array) = 4
    /\ cur[1].req.array[1] = CommandName.MSET
    /\ cur[1].err = ArityError("MSET")
    /\ St = NewStorage

\* the keys the command of record l names
NamedKeys(l) ==
    IF l.op \in {"SET", "GET", "STRLEN", "GETRANGE", "GETSET"} THEN {l.key}
    ELSE IF l.op \in {"DEL", "EXISTS", "MGET"} THEN Range(l.keys)
    ELSE IF l.op = "MSET" THEN DOMAIN l.pairs
    ELSE {}

\* map m holds for key k in the next state what it holds in this one
SameEntry(m, n, k) == (Has(m, k) <=> Has(n, k)) /\ (Has(m, k) => m[k] = n[k])

StoredInt(k) == IF Has(data, k) THEN ParseInt(data[k]).n ELSE 0

\* C27: for a key that is not stored or holds an integer n, INCRBY key delta
\* succeeds, returns n + delta and stores the decimal form of n + delta, and
\* DECRBY key delta succeeds, returns n - delta and stores its decimal form,
\* at the ends of the integer range as everywhere else.
C27_IncrByIsExactSum ==
    [][\A k \in EditKeys :
          (/\ last'.op \in {"INCRBY", "DECRBY"}
           /\ last'.key = k
           /\ Has(data, k) => ParseInt(data[k]).ok) =>
              LET sum == IF last'.op = "INCRBY" THEN StoredInt(k) + last'.num
                                               ELSE StoredInt(k) - last'.num
              IN  /\ last'.err = NoErr
                  /\ last'.n = sum
                  /\ data'[k] = FormatInt(sum)]_vars

\* x brought into lo..hi
Clamp(x, lo, hi) == IF x < lo THEN lo ELSE IF x > hi THEN hi ELSE x

\* the inclusive substring of val: L is added to a negative index, both
\* bounds are clamped into 0..L-1, the result is empty when start > end
ClampedRange(val, start, end) ==
    LET L  == Len(val)
        s1 == Clamp(IF start < 0 THEN L + start ELSE start, 0, L - 1)
        e1 == Clamp(IF end < 0 THEN L + end ELSE end, 0, L - 1)
    IN  IF L = 0 \/ s1 > e1 THEN <<>> ELSE SubSeq(val, s1 + 1, e1 + 1)

\* C28: for every stored value and all integers start and end, GETRANGE
\* returns the inclusive substring with negative indices counted from the
\* end and both bounds clamped into the value, and the empty sequence for a
\* key that is not stored or whose expiration instant has passed.
C28_GetRangeClamps ==
    last.op = "GETRANGE" =>
        last.val = IF ~Has(data, last.key) \/ last.key \in last.expired
                   THEN <<>>
                   ELSE ClampedRange(data[last.key], last.start, last.end)

\* the longer of two lengths
Max(a, b) == IF a >= b THEN a ELSE b

\* C29: for an offset from 0 on, SETRANGE leaves a value of length
\* max(oldLen, offset + len(value)), oldLen being 0 for a key not stored; the
\* value holds the bytes written at the offset, the old bytes at every other
\* position below oldLen and zero bytes in the gap between oldLen and the
\* offset; the length returned is the length of the value stored.
C29_SetRangeBuffer ==
    last.op = "SETRANGE" =>
        LET old    == IF last.old = Nil THEN <<>> ELSE last.old[1]
            oldLen == Len(old)
            new    == data[last.key]
        IN  /\ Len(new) = Max(oldLen, last.offset + Len(last.val))
            /\ last.n = Len(new)
            /\ \A i \in 1..Len(new) :
                   new[i] = IF i > last.offset /\ i <= last.offset + Len(last.val)
                            THEN last.val[i - last.offset]
                            ELSE IF i <= oldLen THEN old[i] ELSE 0

\* SETRANGE has written past the end of a stored value, with a gap of zero
\* bytes between the old bytes and the bytes written
C29_Witness ==
    /\ last.op = "SETRANGE"
    /\ last.old # Nil
    /\ Len(last.old[1]) > 0
    /\ last.offset > Len(last.old[1]) + 1
    /\ Len(last.val) = MaxWriteLen
    /\ last.n = last.offset + MaxWriteLen

\* C30: a SETRANGE request with a negative offset is rejected before it
\* reaches the store: no worker ever holds a parsed SETRANGE command whose
\* offset is below 0, so SetRange is never called with one, and the process
\* never ends through such a request.
C30_NegativeOffsetRejected ==
    /\ \A p \in Peers :
           (cur[p].err = NoErr /\ cur[p].cmd.op = "SETRANGE") =>
               cur[p].cmd.offset >= 0
    /\ ~exited

\* C31: APPEND key suffix stores the old value followed by the suffix, the
\* old value being empty for a key that is not stored, returns the length of
\* what it stores, and leaves the expiry entry of the key, present or not,
\* and the value and expiry entry of every other key as they were.
C31_AppendConcatenates ==
    [][last'.op = "APPEND" =>
          LET k   == last'.key
              old == IF Has(data, k) THEN data[k] ELSE <<>>
          IN  /\ data'[k] = old \o last'.val
              /\ last'.n = Len(data'[k])
              /\ SameEntry(expiry, expiry', k)
              /\ \A j \in KeySet \ {k} :
                     SameEntry(data, data', j) /\ SameEntry(expiry, expiry', j)]_vars

\* an APPEND has extended the value of a key that carries a TTL, the other
\* key being stored too
C31_Witness ==
    /\ last.op = "APPEND"
    /\ last.n = 2
    /\ Has(expiry, last.key)
    /\ DOMAIN data = KeySet

ReadOnlyOps == {"EXISTS", "STRLEN", "GETRANGE", "MGET", "KEYS", "PING", "HELLO", "CLIENT"}

RequestedSeconds(arr) ==
    IF Len(arr) >= 5 /\ ToUpper(arr[4]) = TokenEX THEN ParseInt(arr[5]).n ELSE 0

\* C33: a SET request whose EX clause gives n <= 0, or which has no EX
\* clause, is executed as a plain Set: the value is stored and the key has no
\* expiry entry afterwards, whatever TTL it had, so SetWithExpiry never sees
\* a duration <= 0.
C33_NonPositiveEXIsPlainSet ==
    [][(cur'[1].sent = cur[1].sent + 1 /\ cur[1].cmd.op = "SET") =>
          LET arr == cur[1].req.array IN
          RequestedSeconds(arr) <= 0 =>
              /\ Has(data', arr[2]) /\ data'[arr[2]] = arr[3]
              /\ ~Has(expiry', arr[2])]_vars

\* goroutine p is inside GetSet at statement at
InGetSet(p, at) == pc[p] = at /\ call[p].op = "GetSet"

\* C34: GetSet on a stored key stores the new value, removes the TTL of the
\* key and returns the value the key held just before the write, with
\* existed = true; between its read of the old value and its return no other
\* goroutine is inside a method, so none observes or changes the key.
C34_GetSetAtomic ==
    \A p \in Procs :
        LET key == call[p].key IN
        /\ (\E at \in {"GetSetWrite", "GetSetDelete", "unlock"} : InGetSet(p, at)) =>
               writer = p /\ readers = {} /\ ~fatal
        /\ (InGetSet(p, "GetSetWrite") /\ loc[p].exists) =>
               Has(data, key) /\ data[key] = loc[p].val
        /\ InGetSet(p, "GetSetDelete") =>
               Has(data, key) /\ data[key] = call[p].val
        /\ InGetSet(p, "unlock") =>
               /\ Has(data, key) /\ data[key] = call[p].val
               /\ ~Has(expiry, key)
               /\ loc[p].exists =>
                      loc[p].ret = Result(TRUE, 0, Some(loc[p].val))

\* a GetSet is about to return the old value of a key it found stored with a
\* running TTL, while another goroutine waits for the lock
C34_Witness ==
    \E p \in Procs :
        /\ InGetSet(p, "unlock")
        /\ loc[p].exists /\ loc[p].val # call[p].val
        /\ \E q \in Procs \ {p} : pc[q] = "lock"

\* C35: in every reachable state every key with an entry in the expiry map
\* has an entry in the value map: a key may have a value and no TTL, never a
\* TTL and no value.
C35_ExpiryHasValue == DOMAIN expiry \subseteq DOMAIN data

\* a GET has purged an expired key while the other key is stored with a TTL
C35_Witness ==
    /\ last.op = "GET"
    /\ last.key \in last.expired
    /\ ~Has(data, last.key) /\ ~Has(expiry, last.key)
    /\ \E k \in KeySet \ {last.key} : Has(expiry, k) /\ Has(data, k)

\* C36: in every reachable state every key with an entry in the counters map
\* has an entry in the value map; no sequence of commands, expiry purges and
\* overwrites included, leaves a counters entry for a key that is not stored.
C36_CountersHaveValue == DOMAIN counters \subseteq DOMAIN data

\* the commands that call Set, SetWithExpiry, Append, SetRange, IncrBy or
\* GetSet on one key
KeyWriteOps == {"SET", "APPEND", "SETRANGE", "INCR", "DECR", "INCRBY", "DECRBY", "GETSET"}

\* C37: right after a successful write of key k, before any other command
\* and before the clock moves, Get(k) and Exists(k) report k present with the
\* value just written, also when k carried an elapsed TTL that no read had
\* purged before the write.
C37_ReadYourWrites ==
    (last.op \in KeyWriteOps /\ last.err = NoErr) =>
        /\ Has(data, last.key)
        /\ Exists(St, now, last.key)
        /\ Get(St, now, last.key).ok
        /\ Get(St, now, last.key).val = Some(data[last.key])

\* the connections whose command is executed in the step
Executing == {p \in Peers : cur'[p].sent # cur[p].sent}

\* C38: command execution is serialized by the server loop: a step executes
\* the command of at most one connection, it is taken by the loop from its
\* select, and until the loop has written the reply and is back at its
\* select no other command is executed and the store does not change.
C38_ExecuteSerialized ==
    [][/\ Cardinality(Executing) <= 1
       /\ Executing # {} => loopPc = "select"
       /\ loopPc = "write" => Executing = {} /\ St' = St
       /\ St' # St => Executing # {}]_vars

\* the loop is between Execute and the write of the reply of one connection
\* while another connection waits with a parsed command to hand over
C38_Witness ==
    /\ loopPc = "write"
    /\ \E p \in Peers \ {loopMsg.peer} : peerPc[p] = "send"
    /\ counters # EmptyMap

\* the counter value a reply to INCR a or GET a carries, 0 for the null reply
Carried(frame) == IF frame.kind = "bulk" THEN ParseInt(frame.bytes).n ELSE 0

\* C39: on every connection the commands are executed in the order in which
\* the requests were read and parsed, and the replies are written in that
\* order: the command executed is the one of the request read last, a
\* connection has its next command executed only after it has read another
\* request, a reply is appended to what the connection was sent, and it is
\* the reply of the command executed last.  With INCR a and GET a as
\* requests the replies of a connection therefore never decrease.
C39_RepliesInRequestOrder ==
    [][\A p \in Peers :
          /\ cur'[p].seq >= cur[p].seq
          /\ p \in Executing =>
                /\ peerPc[p] = "send" /\ peerPc'[p] = "read"
                /\ loopPc' = "write"
                /\ loopMsg'.peer = p
                /\ loopMsg'.seq = cur[p].seq /\ loopMsg'.cmd = cur[p].cmd
          /\ (peerPc[p] # "send" /\ peerPc'[p] = "send") =>
                cur'[p].seq = cur[p].seq + 1 /\ p \notin Executing
          /\ outbox'[p] # outbox[p] =>
                /\ loopPc = "write" /\ loopMsg.peer = p
                /\ outbox'[p] = Append(outbox[p], loopMsg.frame)
          /\ \A i \in 1..(Len(outbox'[p]) - 1) :
                Carried(outbox'[p][i]) <= Carried(outbox'[p][i + 1])]_vars

\* a connection was sent two replies that carry different counter values,
\* while the other connection was sent a reply too
C39_Witness ==
    \E p \in Peers :
        /\ Len(outbox[p]) >= 2
        /\ Carried(outbox[p][1]) < Carried(outbox[p][2])
        /\ \E q \in Peers \ {p} : Len(outbox[q]) >= 1

\* the connections whose add notification the loop has processed and whose
\* delete notification it has not
Live == {p \in Peers : peerPc[p] \in {"read", "send", "delete"}}

\* C40: the peers registry of the server is the set of live connections: a
\* peer is a member from the moment the loop has processed its add
\* notification until the loop has processed its delete notification.
C40_PeersAreLiveConnections == ~exited => peers = Live
====
